---- MODULE Spec2Model ----
(***************************************************************************)
(* cf-helper: the local data engine of the Codeforces side bar.            *)
(*                                                                         *)
(*   src/db.ts              the IndexedDB submission store                 *)
(*   src/unnamed/part_000   the overlay component (second file of the      *)
(*                          part, lines 617-1594): catalog refresh,        *)
(*                          submission sync, start-up effect               *)
(*                                                                         *)
(* Ten specifications share the variables:                                 *)
(*   SpecStore    handleSyncData / saveSubmissions / handleClearDb         *)
(*   SpecReads    getRecentSubmissions over the stores of the schema       *)
(*   SpecCatalog  start-up effect and fetchCFProblems over the snapshots  *)
(*                an earlier session can have left                         *)
(*   SpecFailures fetchCFProblems and handleSyncData side by side          *)
(*   SpecSearch   searchResults memo and handleRandomPick over a loaded    *)
(*                catalog                                                  *)
(*   SpecExport   handleExportHistory over the stores a sync can leave     *)
(*   SpecFolders  the folder operations and the two imports                *)
(*   SpecLoading  fetchCFProblems, fetchContests and fetchAIModels on the  *)
(*                one isLoading flag                                       *)
(*   SpecStatus   fetchUserStatus over the answers of user.status          *)
(*   SpecCount    refreshDbCount between syncs, clears and exports         *)
(***************************************************************************)
EXTENDS Integers, Sequences, FiniteSets, TLC

\* ------------------------------------------------------------------ bounds
\* longest batch handed to saveSubmissions
MaxBatch == 2
\* store sizes and limits tried by SpecReads
MaxReadId == 3
MaxLimit == 4
\* fetchCFProblems calls that can be in flight together
MaxRefresh == 2
\* milliseconds the clock advances after the start of a session
MaxTick == 1

\* ------------------------------------------------------------------ values
\* `code?: string` absent (undefined)
NoCode == "<undefined>"
\* code attached to a stored record by the mechanism outside this repository
StoredCodes == {"old"}
\* code carried by an incoming record
SuppliedCodes == {"new"}
Verdicts == {"OK", "WRONG_ANSWER"}
SyncTimes == {100}
ReadTimes == {100, 200, 300}
Comments == {"handle: not found"}

\* submission ids; 0 is the falsy id that line 45 of db.ts tests
Ids == {1, 2}

\* sub.problem: absent, or the problem object (name stands for the fields
\* contestId, index, name, rating, tags that lines 51-55 copy from it)
NoProblem == [present |-> FALSE, name |-> ""]
TheProblem == [present |-> TRUE, name |-> "A"]

\* records of user.status that pass the test of line 45
ValidSubs ==
    [id : Ids, problem : {TheProblem}, verdict : Verdicts,
     creationTimeSeconds : SyncTimes, code : {NoCode} \cup SuppliedCodes]

\* records that fail it: no problem reference, or a falsy id.  The loop reads
\* nothing else of such a record, so its other fields are fixed.
MalformedSubs ==
    [id : {0} \cup Ids, problem : {NoProblem}, verdict : {"OK"},
     creationTimeSeconds : {100}, code : {NoCode}]
    \cup [id : {0}, problem : {TheProblem}, verdict : {"OK"},
          creationTimeSeconds : {100}, code : {NoCode}]

RawSubs == ValidSubs \cup MalformedSubs

SeqsUpTo(S, n) == UNION {[1..k -> S] : k \in 0..n}

Batches == SeqsUpTo(RawSubs, MaxBatch)

\* ------------------------------------------------------------------ state
VARIABLES
    store,        \* committed content of object store 'submissions'
    txStore,      \* content as seen inside the open readwrite transaction
    txActive,     \* a saveSubmissions transaction is open
    batch,        \* the argument of the running saveSubmissions
    pos,          \* records of batch the loop has processed
    preStore,     \* history: store when the transaction was opened
    mergedIds,    \* history: ids upserted and committed since the last clear
    lastOp,       \* history: last finished store operation
    syncPc,       \* handleSyncData: "idle", "fetching", "saving"
    syncStatus,   \* syncStatus of the component
    userHandle,   \* settings.userHandle
    lastAlert,    \* text of the last alert()
    limit,        \* argument of getRecentSubmissions
    recent,       \* its result
    readPc,       \* "idle" before the read, "done" after it
    storage,      \* chrome.storage.local: cf_all_problems_cache,
                  \* cf_cache_time, cf_sys_folders
    allProblemsCache,
    systemFolders,
    isLoading,
    started,      \* the callback of the start-up effect has run
    now,          \* Date.now()
    refresh,      \* the fetchCFProblems calls, one record per slot
    consoleErrors,\* whether console.error was called
    searchText,   \* text of the search box
    minRating,    \* text of the Min box
    maxRating,    \* text of the Max box
    myFolders,    \* the custom folders
    searchResults,\* the value of the searchResults memo
    userStatus,   \* StatusMap: problem id -> "OK" | "WRONG"
    showStatus,   \* settings.showStatus
    pick,         \* what the last handleRandomPick did
    dbCount,      \* dbCount of the component
    countCalls,   \* the refreshDbCount calls in flight, oldest first
    exportFormat, \* "csv" or "json"
    exportOnlyAC, \* the "only accepted" checkbox
    exported,     \* what the last handleExportHistory did
    selectedFolderId,
    activeProblem,\* the problem of the page, or NoActive (null)
    contextMenu,  \* contextMenu.problem, or NoActive (null)
    loaders,      \* the fetchContests and fetchAIModels calls in flight
    statusCall    \* the fetchUserStatus calls

storeVars ==
    <<store, txStore, txActive, batch, pos, preStore, mergedIds, lastOp,
      syncPc, syncStatus, userHandle, lastAlert>>

readVars == <<limit, recent, readPc>>

catVars ==
    <<storage, allProblemsCache, systemFolders, isLoading, started, now,
      refresh, consoleErrors>>

searchVars ==
    <<searchText, minRating, maxRating, myFolders, searchResults, userStatus,
      showStatus, pick>>

exportVars == <<dbCount, countCalls, exportFormat, exportOnlyAC, exported>>

folderVars == <<selectedFolderId, activeProblem, contextMenu>>

uiVars == <<exportVars, folderVars, loaders, statusCall>>

vars == <<storeVars, readVars, catVars, searchVars, uiVars>>

\* handleRandomPick has not run
NoPick == [outcome |-> "none", alert |-> "", id |-> << >>, navigated |-> FALSE]

\* the state of lines 735, 750, 751, 771, 775 and 781, with the memo of
\* line 1213 for it
SearchUnused ==
    /\ searchText = << >>
    /\ minRating = << >>
    /\ maxRating = << >>
    /\ myFolders = << >>
    /\ searchResults = [my |-> << >>, global |-> << >>]
    /\ userStatus = << >>
    /\ showStatus = FALSE
    /\ pick = NoPick

\* null, for activeProblem and contextMenu.problem
NoActive == [id |-> << >>, name |-> << >>, tags |-> {}, rating |-> 0,
             contestId |-> 0]

\* handleExportHistory has not run
NoExport == [outcome |-> "none", format |-> "", data |-> << >>,
             lines |-> << >>]

\* no fetchContests and no fetchAIModels in flight; contestsStored says
\* whether chrome.storage.local holds cf_upcoming_contests
NoLoaders == [contests |-> 0, ai |-> 0, contestsStored |-> TRUE]

\* user.status does not answer: fetch throws
NoAnswer == [kind |-> "network", status |-> "", comment |-> "",
             result |-> << >>]

\* fetchUserStatus has not been called: inFlight holds the alertResult of
\* every call between its fetch and its end, outcome tells how the call
\* that ended last ended, and answer is what user.status answers for the
\* handle during the session
IdleStatusCall == [inFlight |-> << >>, outcome |-> "none",
                   answer |-> NoAnswer]

\* the state of lines 739, 743, 746, 747 and 770, with nothing in flight
UiIdle ==
    /\ dbCount = 0
    /\ countCalls = << >>
    /\ exportFormat = "csv"
    /\ exportOnlyAC = FALSE
    /\ exported = NoExport
    /\ activeProblem = NoActive
    /\ contextMenu = NoActive
    /\ loaders = NoLoaders
    /\ statusCall = IdleStatusCall

\* with line 771 as well
UiUnused == UiIdle /\ selectedFolderId = ""

\* ------------------------------------------------------------ src/db.ts
\* The object store is a map from primary key to record.
EmptyStore == << >>

\* mutant: the store created with autoIncrement and no keyPath
keyOf_autoIncrement(s, v) == Cardinality(DOMAIN s) + 1

\* createObjectStore('submissions', {keyPath: 'id'}): the key of a value is
\* its id
keyOf(s, v) == v.id

\* mutant: store.add, a record under a key the store holds is kept
storePut_keepExisting(s, v) ==
    LET k == keyOf(s, v)
    IN  [x \in (DOMAIN s) \cup {k} |-> IF x \in DOMAIN s THEN s[x] ELSE v]

\* store.put(value): insert, or replace the record under the same key
storePut(s, v) ==
    LET k == keyOf(s, v)
    IN  [x \in (DOMAIN s) \cup {k} |-> IF x = k THEN v ELSE s[x]]

\* existing?.code after `existing = await store.get(sub.id)`
existingCode(s, id) == IF id \in DOMAIN s THEN s[id].code ELSE NoCode

\* mutant: line 63 left out, the stored code is lost on every re-sync
putValue_dropCode(s, sub) ==
    [id |-> sub.id,
     name |-> sub.problem.name,
     verdict |-> sub.verdict,
     creationTimeSeconds |-> sub.creationTimeSeconds,
     code |-> NoCode]

\* mutant: line 63 as `code: sub.code ?? existing?.code`
putValue_suppliedCode(s, sub) ==
    [id |-> sub.id,
     name |-> sub.problem.name,
     verdict |-> sub.verdict,
     creationTimeSeconds |-> sub.creationTimeSeconds,
     code |-> IF sub.code # NoCode THEN sub.code ELSE existingCode(s, sub.id)]

\* the object of lines 49-64
putValue(s, sub) ==
    [id |-> sub.id,
     name |-> sub.problem.name,
     verdict |-> sub.verdict,
     creationTimeSeconds |-> sub.creationTimeSeconds,
     code |-> existingCode(s, sub.id)]

\* the test of line 45
isKeyed(sub) == sub.id # 0 /\ sub.problem.present

\* one pass of the loop body, lines 45-65
saveOne(s, sub) == IF isKeyed(sub) THEN storePut(s, putValue(s, sub)) ELSE s

\* the whole loop, lines 44-66
RECURSIVE saveLoop(_, _)
saveLoop(s, subs) ==
    IF subs = << >> THEN s ELSE saveLoop(saveOne(s, Head(subs)), Tail(subs))

\* mutant: every put in a transaction of its own (db.put), committed at once
txVisible_perPut(committed, working) == working

\* db.transaction('submissions', 'readwrite'): what is committed while the
\* transaction is open does not include the transaction's own puts
txVisible(committed, working) == committed

\* db.count('submissions')
storeCount(s) == Cardinality(DOMAIN s)

\* mutant: the cursor opened with direction 'next'
cursorFirst_next(s, keys) ==
    CHOOSE k \in keys :
        \A j \in keys :
            \/ s[j].creationTimeSeconds > s[k].creationTimeSeconds
            \/ s[j].creationTimeSeconds = s[k].creationTimeSeconds /\ j >= k

\* index('by-creation').openCursor(null, 'prev') and cursor.continue(): among
\* the records not yet visited, the one with the greatest index key
\* creationTimeSeconds, and among equal index keys the greatest primary key
cursorFirst(s, keys) ==
    CHOOSE k \in keys :
        \A j \in keys :
            \/ s[j].creationTimeSeconds < s[k].creationTimeSeconds
            \/ s[j].creationTimeSeconds = s[k].creationTimeSeconds /\ j <= k

\* the loop of lines 89-92
RECURSIVE cursorLoop(_, _, _, _)
cursorLoop(s, keys, results, lim) ==
    IF keys # {} /\ Len(results) < lim
    THEN LET k == cursorFirst(s, keys)
         IN  cursorLoop(s, keys \ {k}, Append(results, s[k]), lim)
    ELSE results

\* lines 85-94
getRecentSubmissions(s, lim) == cursorLoop(s, DOMAIN s, << >>, lim)

\* lines 75-78
getSubmissionCount == storeCount(store)

IdsOf(s) == {s[k].id : k \in DOMAIN s}

ValidIds(subs) == {subs[k].id : k \in {j \in 1..Len(subs) : isKeyed(subs[j])}}

\* -------------------------------------------------- the problem catalog
\* line 641
CF_TAGS ==
    <<"dp", "greedy", "math", "graphs", "data structures", "sortings",
      "binary search", "dfs and similar", "trees", "strings", "number theory",
      "geometry", "two pointers", "dsu", "bitmasks",
      "constructive algorithms", "implementation">>

\* line 1141
oneDay == 24 * 60 * 60 * 1000

\* slice(0, 20) of line 920
SysFolderCap == 20

\* Text that the program takes apart or puts together is a sequence of
\* one-character strings; a tag is compared as a whole and stays a string.
DigitChars == <<"0", "1", "2", "3", "4", "5", "6", "7", "8", "9">>

\* ---------------------------------------------------------------- text
\* Text of ids, names and input boxes is a sequence of one-character strings
\* over space, the digits and the letters.
LowerLetters ==
    <<"a", "b", "c", "d", "e", "f", "g", "h", "i", "j", "k", "l", "m",
      "n", "o", "p", "q", "r", "s", "t", "u", "v", "w", "x", "y", "z">>

UpperLetters ==
    <<"A", "B", "C", "D", "E", "F", "G", "H", "I", "J", "K", "L", "M",
      "N", "O", "P", "Q", "R", "S", "T", "U", "V", "W", "X", "Y", "Z">>

isUpper(c) == \E k \in 1..Len(UpperLetters) : UpperLetters[k] = c

\* String.prototype.toLowerCase, one character
lowerChar(c) ==
    IF isUpper(c)
    THEN LowerLetters[CHOOSE k \in 1..Len(UpperLetters) : UpperLetters[k] = c]
    ELSE c

\* String.prototype.toLowerCase
toLowerCase(s) == << >> \o [k \in 1..Len(s) |-> lowerChar(s[k])]

\* String.prototype.includes
includes(s, sub) ==
    \E k \in 0..(Len(s) - Len(sub)) : SubSeq(s, k + 1, k + Len(sub)) = sub

\* String.prototype.startsWith
startsWith(s, pre) == Len(pre) <= Len(s) /\ SubSeq(s, 1, Len(pre)) = pre

isDigit(c) == \E k \in 1..Len(DigitChars) : DigitChars[k] = c

digitValue(c) == (CHOOSE k \in 1..Len(DigitChars) : DigitChars[k] = c) - 1

\* the value of the leading digits of s, continuing from acc
RECURSIVE parseDigits(_, _)
parseDigits(s, acc) ==
    IF s = << >> \/ ~isDigit(Head(s))
    THEN acc
    ELSE parseDigits(Tail(s), 10 * acc + digitValue(Head(s)))

\* parseInt on the value of an <input type="number">, which is empty or a
\* number in decimal notation: an optional minus and the leading digits
parseInt(s) ==
    IF Head(s) = "-" THEN 0 - parseDigits(Tail(s), 0) ELSE parseDigits(s, 0)

\* String.prototype.localeCompare over this alphabet, in the order of the
\* Unicode collation: first by letters and digits without regard to case
\* (space, then digits, then letters), a prefix before the longer text; then,
\* for texts that differ in case only, the lower-case letter first
CollationOrder ==
    <<" ">> \o DigitChars \o LowerLetters

primaryRank(c) ==
    CHOOSE k \in 1..Len(CollationOrder) : CollationOrder[k] = lowerChar(c)

\* the primary weights of a text
collationKey(s) == << >> \o [k \in 1..Len(s) |-> primaryRank(s[k])]

RECURSIVE comparePrimary(_, _, _)
comparePrimary(ka, kb, k) ==
    IF k > Len(ka) /\ k > Len(kb) THEN 0
    ELSE IF k > Len(ka) THEN -1
    ELSE IF k > Len(kb) THEN 1
    ELSE IF ka[k] < kb[k] THEN -1
    ELSE IF ka[k] > kb[k] THEN 1
    ELSE comparePrimary(ka, kb, k + 1)

RECURSIVE compareCase(_, _, _)
compareCase(a, b, k) ==
    IF k > Len(a) \/ k > Len(b) THEN 0
    ELSE IF a[k] = b[k] THEN compareCase(a, b, k + 1)
    ELSE IF isUpper(b[k]) THEN -1 ELSE 1

primaryThenCase(primary, a, b) ==
    IF primary # 0 THEN primary ELSE compareCase(a, b, 1)

\* localeCompare of texts a and b whose primary weights are ka and kb
collate(ka, kb, a, b) == primaryThenCase(comparePrimary(ka, kb, 1), a, b)

localeCompare(a, b) == collate(collationKey(a), collationKey(b), a, b)

\* the characters of the tags of CF_TAGS
TagText ==
    "dp" :> <<"d", "p">> @@
    "greedy" :> <<"g", "r", "e", "e", "d", "y">> @@
    "math" :> <<"m", "a", "t", "h">> @@
    "graphs" :> <<"g", "r", "a", "p", "h", "s">> @@
    "data structures" :>
        <<"d", "a", "t", "a", " ", "s", "t", "r", "u", "c", "t", "u", "r",
        "e", "s">> @@
    "sortings" :> <<"s", "o", "r", "t", "i", "n", "g", "s">> @@
    "binary search" :>
        <<"b", "i", "n", "a", "r", "y", " ", "s", "e", "a", "r", "c", "h">> @@
    "dfs and similar" :>
        <<"d", "f", "s", " ", "a", "n", "d", " ", "s", "i", "m", "i", "l",
        "a", "r">> @@
    "trees" :> <<"t", "r", "e", "e", "s">> @@
    "strings" :> <<"s", "t", "r", "i", "n", "g", "s">> @@
    "number theory" :>
        <<"n", "u", "m", "b", "e", "r", " ", "t", "h", "e", "o", "r", "y">> @@
    "geometry" :> <<"g", "e", "o", "m", "e", "t", "r", "y">> @@
    "two pointers" :>
        <<"t", "w", "o", " ", "p", "o", "i", "n", "t", "e", "r", "s">> @@
    "dsu" :> <<"d", "s", "u">> @@
    "bitmasks" :> <<"b", "i", "t", "m", "a", "s", "k", "s">> @@
    "constructive algorithms" :>
        <<"c", "o", "n", "s", "t", "r", "u", "c", "t", "i", "v", "e", " ",
        "a", "l", "g", "o", "r", "i", "t", "h", "m", "s">> @@
    "implementation" :>
        <<"i", "m", "p", "l", "e", "m", "e", "n", "t", "a", "t", "i", "o",
        "n">>

\* the decimal text of a number, as the template literal of line 916 writes it
RECURSIVE Digits(_)
Digits(n) ==
    IF n < 10
    THEN <<DigitChars[n + 1]>>
    ELSE Digits(n \div 10) \o <<DigitChars[(n % 10) + 1]>>

\* `${p.contestId}${p.index}`, line 916
problemId(contestId, index) == Digits(contestId) \o index

\* p.tags || [], line 916
tagsOf(p) == IF p.tags.present THEN p.tags.list ELSE {}

\* mutant: the id is the index alone
normalizeProblem_indexOnly(p) ==
    [id |-> p.index, name |-> p.name,
     tags |-> tagsOf(p), rating |-> p.rating, contestId |-> p.contestId]

\* the object built for one problem of the response, line 916; rating 0
\* stands for a problem without rating
normalizeProblem(p) ==
    [id |-> problemId(p.contestId, p.index), name |-> p.name,
     tags |-> tagsOf(p), rating |-> p.rating, contestId |-> p.contestId]

normalize(problems) ==
    [k \in 1..Len(problems) |-> normalizeProblem(problems[k])]

\* .sort((a, b) => b.contestId - a.contestId), line 920: stable, descending
insertDesc(sorted, p) ==
    LET k == Cardinality({j \in 1..Len(sorted) :
                             sorted[j].contestId >= p.contestId})
    IN  SubSeq(sorted, 1, k) \o <<p>> \o SubSeq(sorted, k + 1, Len(sorted))

RECURSIVE sortByContestDesc(_)
sortByContestDesc(s) ==
    IF s = << >>
    THEN << >>
    ELSE insertDesc(sortByContestDesc(SubSeq(s, 1, Len(s) - 1)), s[Len(s)])

\* mutant: the slice is taken before the sort
sysFolder_sliceFirst(tag, catalog) ==
    LET hasTag(p) == tag \in p.tags
        tagged == SelectSeq(catalog, hasTag)
    IN  [id |-> "sys_" \o tag,
         problems |-> sortByContestDesc(
                          SubSeq(tagged, 1,
                                 IF Len(tagged) < SysFolderCap
                                 THEN Len(tagged) ELSE SysFolderCap))]

\* lines 919-922, one tag
sysFolder(tag, catalog) ==
    LET hasTag(p) == tag \in p.tags
        sorted == sortByContestDesc(SelectSeq(catalog, hasTag))
    IN  [id |-> "sys_" \o tag,
         problems |-> SubSeq(sorted, 1,
                             IF Len(sorted) < SysFolderCap
                             THEN Len(sorted) ELSE SysFolderCap)]

\* newSys of lines 919-922
classify(catalog) ==
    [k \in 1..Len(CF_TAGS) |-> sysFolder(CF_TAGS[k], catalog)]

\* line 1137
emptySysFolders ==
    [k \in 1..Len(CF_TAGS) |-> [id |-> "sys_" \o CF_TAGS[k], problems |-> << >>]]

\* chrome.storage.local without the three catalog keys
NoSnapshot ==
    [hasCache |-> FALSE, cache |-> << >>, cacheTime |-> 0,
     hasSys |-> FALSE, sys |-> << >>]

\* what lines 918 and 924 write
snapshotOf(catalog, time) ==
    [hasCache |-> TRUE, cache |-> catalog, cacheTime |-> time,
     hasSys |-> TRUE, sys |-> classify(catalog)]

\* mutant: a snapshot of exactly one day still counts as fresh
cacheFresh_inclusive(st, t) == st.hasCache /\ t - st.cacheTime <= oneDay

\* the test of line 1142; cacheTime is 0 when cf_cache_time is missing (1140)
cacheFresh(st, t) == st.hasCache /\ t - st.cacheTime < oneDay

\* ---- the responses of problemset.problems tried here
NoTags == [present |-> FALSE, list |-> {}]

Tags(list) == [present |-> TRUE, list |-> list]

RawWatermelon ==
    [contestId |-> 4, index |-> <<"A">>, name |-> <<"W">>,
     tags |-> Tags({"math"}), rating |-> 800]

RawReflection ==
    [contestId |-> 44, index |-> <<"A">>, name |-> <<"I">>,
     tags |-> NoTags, rating |-> 0]

RawSplit ==
    [contestId |-> 1504, index |-> <<"B", "1">>, name |-> <<"S">>,
     tags |-> Tags({"dp", "math"}), rating |-> 1500]

\* a response with more problems of one tag than a system folder takes:
\* LongListLen problems of distinct contests, not in contest order, all tagged
\* "dp" and every second one "math" as well
LongListLen == 22

RawLong ==
    [k \in 1..LongListLen |->
        [contestId |-> 100 + ((7 * k) % 23), index |-> <<"A">>,
         name |-> <<"P">>,
         tags |-> Tags(IF k % 2 = 0 THEN {"dp", "math"} ELSE {"dp"}),
         rating |-> 800]]

ProblemLists ==
    {<<RawWatermelon, RawReflection>>, <<RawSplit, RawWatermelon>>, RawLong}

\* fetch or res.json() throws; a non-OK status with its comment; status OK
Responses ==
    {[kind |-> "network", status |-> "", comment |-> "", problems |-> << >>]}
    \cup {[kind |-> "json", status |-> "FAILED", comment |-> c,
           problems |-> << >>] : c \in {"Call limit exceeded"}}
    \cup {[kind |-> "json", status |-> "OK", comment |-> "", problems |-> l] :
          l \in ProblemLists}

\* how a call of fetchCFProblems ends
outcomeOf(resp) ==
    IF resp.kind = "network" THEN "network"
    ELSE IF resp.status = "OK" THEN "ok" ELSE "status"

\* What a call of fetchCFProblems hands to its caller when it ends: the async
\* function has no return statement, the catch of line 926 swallows the
\* error and the if of line 915 has no else.
refreshReturn(resp) == "undefined"

IdleCall == [pc |-> "idle", outcome |-> "", returned |-> ""]

Slots == 1..MaxRefresh

\* the session starts at a moment around the end of the snapshot's day
SnapshotTime == 1000

StartTimes ==
    {SnapshotTime + oneDay - 1, SnapshotTime + oneDay}

LastTime == SnapshotTime + oneDay + MaxTick

\* fetchCFProblems up to its first await, lines 910-913; the call takes the
\* first slot that holds no call in flight, and at most MaxRefresh calls are
\* in flight together
callFetchCFProblems(i) ==
    /\ refresh[i].pc # "fetch"
    /\ \A j \in Slots : j < i => refresh[j].pc = "fetch"
    /\ isLoading' = TRUE
    /\ refresh' = [refresh EXCEPT ![i] = [pc |-> "fetch", outcome |-> "",
                                           returned |-> ""]]

\* the folder of line 1132
FavDefault == [id |-> "fav_def", title |-> "My Favorites", problems |-> << >>]

\* the callback of chrome.storage.local.get in the start-up effect, 1121-1153.
\* Of chrome.storage.local the model holds the three catalog keys and whether
\* cf_upcoming_contests is there: no cf_my_folders, cf_settings or
\* cf_user_status is stored, so the custom folders become the default folder
\* (1132), which is selected (1134), and the settings and the status map stay
\* as they are.  fetchUserStatus (1146) and fetchContests (1150) are started
\* when their conditions hold.
initEffect ==
    /\ ~started
    /\ started' = TRUE
    /\ myFolders' = <<FavDefault>>
    /\ systemFolders' = IF storage.hasSys THEN storage.sys ELSE emptySysFolders
    /\ selectedFolderId' = FavDefault.id
    /\ IF cacheFresh(storage, now)
       THEN /\ allProblemsCache' = storage.cache
            /\ isLoading' = (isLoading \/ ~loaders.contestsStored)
            /\ UNCHANGED refresh
       ELSE /\ \E i \in Slots : callFetchCFProblems(i)
            /\ UNCHANGED allProblemsCache
    /\ statusCall' = IF showStatus /\ userHandle # ""
                     THEN [statusCall EXCEPT !.inFlight = Append(@, FALSE)]
                     ELSE statusCall
    /\ loaders' = IF loaders.contestsStored
                  THEN loaders
                  ELSE [loaders EXCEPT !.contests = @ + 1]
    /\ UNCHANGED <<storage, now, consoleErrors, storeVars, readVars, searchText,
                   minRating, maxRating, searchResults, userStatus, showStatus,
                   pick, exportVars, activeProblem, contextMenu>>

\* the Download link of line 1287
downloadClicked ==
    /\ allProblemsCache = << >>
    /\ ~isLoading
    /\ \E i \in Slots : callFetchCFProblems(i)
    /\ UNCHANGED <<storage, allProblemsCache, systemFolders, started, now,
                   consoleErrors, storeVars, readVars,
                   searchVars, uiVars>>

\* the refresh icon of line 1304
refreshClicked ==
    /\ \E i \in Slots : callFetchCFProblems(i)
    /\ UNCHANGED <<storage, allProblemsCache, systemFolders, started, now,
                   consoleErrors, storeVars, readVars,
                   searchVars, uiVars>>

\* mutant: a refresh that fails empties the catalog in memory
fetchCFProblemsEnd_clearOnFailure(i, resp) ==
    /\ refresh[i].pc = "fetch"
    /\ IF outcomeOf(resp) = "ok"
       THEN /\ allProblemsCache' = normalize(resp.problems)
            /\ storage' = snapshotOf(normalize(resp.problems), now)
            /\ systemFolders' = classify(normalize(resp.problems))
       ELSE /\ allProblemsCache' = << >>
            /\ UNCHANGED <<storage, systemFolders>>
    /\ consoleErrors' = (consoleErrors \/ outcomeOf(resp) = "network")
    /\ isLoading' = FALSE
    /\ refresh' = [refresh EXCEPT ![i] = [pc |-> "done",
                                           outcome |-> outcomeOf(resp),
                                           returned |-> refreshReturn(resp)]]
    /\ UNCHANGED <<started, now, storeVars, readVars,
                   searchVars, uiVars>>

\* mutant: system folders that hold problems are kept when a refresh ends
fetchCFProblemsEnd_keepFolders(i, resp) ==
    /\ refresh[i].pc = "fetch"
    /\ IF outcomeOf(resp) = "ok"
       THEN /\ allProblemsCache' = normalize(resp.problems)
            /\ storage' = snapshotOf(normalize(resp.problems), now)
            /\ systemFolders' =
                  IF \E k \in 1..Len(systemFolders) :
                         systemFolders[k].problems # << >>
                  THEN systemFolders
                  ELSE classify(normalize(resp.problems))
       ELSE UNCHANGED <<allProblemsCache, storage, systemFolders>>
    /\ consoleErrors' = (consoleErrors \/ outcomeOf(resp) = "network")
    /\ isLoading' = FALSE
    /\ refresh' = [refresh EXCEPT ![i] = [pc |-> "done",
                                           outcome |-> outcomeOf(resp),
                                           returned |-> refreshReturn(resp)]]
    /\ UNCHANGED <<started, now, storeVars, readVars,
                   searchVars, uiVars>>

\* fetchCFProblems from the answer of the fetch to its end, lines 913-926
fetchCFProblemsEnd(i, resp) ==
    /\ refresh[i].pc = "fetch"
    /\ IF outcomeOf(resp) = "ok"
       THEN /\ allProblemsCache' = normalize(resp.problems)
            /\ storage' = snapshotOf(normalize(resp.problems), now)
            /\ systemFolders' = classify(normalize(resp.problems))
       ELSE UNCHANGED <<allProblemsCache, storage, systemFolders>>
    /\ consoleErrors' = (consoleErrors \/ outcomeOf(resp) = "network")
    /\ isLoading' = FALSE
    /\ refresh' = [refresh EXCEPT ![i] = [pc |-> "done",
                                           outcome |-> outcomeOf(resp),
                                           returned |-> refreshReturn(resp)]]
    /\ UNCHANGED <<started, now, storeVars, readVars,
                   searchVars, uiVars>>

\* time passes
tick ==
    /\ now < LastTime
    /\ now' = now + 1
    /\ UNCHANGED <<storage, allProblemsCache, systemFolders, isLoading,
                   started, refresh, consoleErrors, storeVars, readVars,
                   searchVars, uiVars>>

\* the state of lines 736, 772 and 774 with nothing in chrome.storage.local
CatalogUnused ==
    /\ storage = NoSnapshot
    /\ allProblemsCache = << >>
    /\ systemFolders = << >>
    /\ isLoading = FALSE
    /\ started = FALSE
    /\ now = SnapshotTime
    /\ refresh = [i \in Slots |-> IdleCall]
    /\ consoleErrors = FALSE

\* a content script starts on a page: the state is that of the useState
\* calls (736, 772, 774); chrome.storage.local holds what an earlier session
\* left, written by lines 918 and 924, or by the version of the script that
\* wrote no cf_cache_time
InitCatalog ==
    /\ storage \in {NoSnapshot}
                   \cup {snapshotOf(normalize(l), t) :
                         l \in ProblemLists, t \in {0, SnapshotTime}}
    /\ allProblemsCache = << >>
    /\ systemFolders = << >>
    /\ isLoading = FALSE
    /\ started = FALSE
    /\ now \in StartTimes
    /\ refresh = [i \in Slots |-> IdleCall]
    /\ consoleErrors = FALSE
    /\ store = EmptyStore
    /\ txStore = EmptyStore
    /\ txActive = FALSE
    /\ batch = << >>
    /\ pos = 0
    /\ preStore = EmptyStore
    /\ mergedIds = {}
    /\ lastOp = "none"
    /\ syncPc = "idle"
    /\ syncStatus = ""
    /\ userHandle = "tourist"
    /\ lastAlert = ""
    /\ limit = 0
    /\ recent = << >>
    /\ readPc = "idle"
    /\ SearchUnused
    /\ UiUnused

NextCatalog ==
    \/ initEffect
    \/ downloadClicked
    \/ refreshClicked
    \/ \E i \in Slots, resp \in Responses : fetchCFProblemsEnd(i, resp)
    \/ tick

SpecCatalog == InitCatalog /\ [][NextCatalog]_vars

\* ---------------------------------------------------------------- loaders
\* calls of fetchContests and of fetchAIModels that the model lets overlap
MaxLoads == 1

\* how contest.list answers: fetch or res.json() throws, a status that is
\* not OK, status OK
ContestAnswers == {"network", "failed", "ok"}

\* the refresh icon of the contests view, line 1321: fetchContests up to its
\* first await, line 827
contestsRefreshClicked ==
    /\ loaders.contests < MaxLoads
    /\ isLoading' = TRUE
    /\ loaders' = [loaders EXCEPT !.contests = @ + 1]
    /\ UNCHANGED <<storage, allProblemsCache, systemFolders, started, now,
                   refresh, consoleErrors, storeVars, readVars, searchVars,
                   exportVars, folderVars, statusCall>>

\* fetchContests from the answer to its end, lines 829-849: an OK answer
\* stores cf_upcoming_contests, a thrown error is logged, and the finally
\* block clears isLoading
fetchContestsEnd(answer) ==
    /\ loaders.contests > 0
    /\ isLoading' = FALSE
    /\ loaders' = [loaders EXCEPT
                      !.contests = @ - 1,
                      !.contestsStored = (@ \/ answer = "ok")]
    /\ consoleErrors' = (consoleErrors \/ answer = "network")
    /\ UNCHANGED <<storage, allProblemsCache, systemFolders, started, now,
                   refresh, storeVars, readVars, searchVars,
                   exportVars, folderVars, statusCall>>

\* handleSetView('ai-leaderboard'), line 791: fetchAIModels up to its first
\* await, line 853
handleSetViewAI ==
    /\ loaders.ai < MaxLoads
    /\ isLoading' = TRUE
    /\ loaders' = [loaders EXCEPT !.ai = @ + 1]
    /\ UNCHANGED <<storage, allProblemsCache, systemFolders, started, now,
                   refresh, consoleErrors, storeVars, readVars, searchVars,
                   exportVars, folderVars, statusCall>>

\* fetchAIModels from the answer of chrome.storage.local.get to its end,
\* lines 859-875; the models are no part of the model
fetchAIModelsEnd ==
    /\ loaders.ai > 0
    /\ isLoading' = FALSE
    /\ loaders' = [loaders EXCEPT !.ai = @ - 1]
    /\ UNCHANGED <<storage, allProblemsCache, systemFolders, started, now,
                   refresh, consoleErrors, storeVars, readVars, searchVars,
                   exportVars, folderVars, statusCall>>

\* the component before the start-up effect, with or without stored contests
InitLoading ==
    /\ storage \in {NoSnapshot}
                   \cup {snapshotOf(normalize(l), t) :
                         l \in {<<RawWatermelon, RawReflection>>},
                         t \in {0, SnapshotTime}}
    /\ allProblemsCache = << >>
    /\ systemFolders = << >>
    /\ isLoading = FALSE
    /\ started = FALSE
    /\ now \in StartTimes
    /\ refresh = [i \in Slots |-> IdleCall]
    /\ consoleErrors = FALSE
    /\ store = EmptyStore
    /\ txStore = EmptyStore
    /\ txActive = FALSE
    /\ batch = << >>
    /\ pos = 0
    /\ preStore = EmptyStore
    /\ mergedIds = {}
    /\ lastOp = "none"
    /\ syncPc = "idle"
    /\ syncStatus = ""
    /\ userHandle = "tourist"
    /\ lastAlert = ""
    /\ limit = 0
    /\ recent = << >>
    /\ readPc = "idle"
    /\ SearchUnused
    /\ dbCount = 0
    /\ countCalls = << >>
    /\ exportFormat = "csv"
    /\ exportOnlyAC = FALSE
    /\ exported = NoExport
    /\ selectedFolderId = ""
    /\ activeProblem = NoActive
    /\ contextMenu = NoActive
    /\ loaders \in {[NoLoaders EXCEPT !.contestsStored = b] : b \in BOOLEAN}
    /\ statusCall = IdleStatusCall

NextLoading ==
    \/ initEffect
    \/ downloadClicked
    \/ refreshClicked
    \/ \E i \in Slots, resp \in Responses : fetchCFProblemsEnd(i, resp)
    \/ contestsRefreshClicked
    \/ \E answer \in ContestAnswers : fetchContestsEnd(answer)
    \/ handleSetViewAI
    \/ fetchAIModelsEnd

SpecLoading == InitLoading /\ [][NextLoading]_vars

\* ---------------------------------------------------------------- search
\* slice(0, 50) of line 1238
GlobalCap == 50

\* lines 1061 and 1215
minOf(minText) == IF minText = << >> THEN 0 ELSE parseInt(minText)

\* lines 1062 and 1216
maxOf(maxText) == IF maxText = << >> THEN 10000 ELSE parseInt(maxText)

\* what lines 1214-1216 (and 1060-1062) compute of the three boxes
queryOf(text, minText, maxText) ==
    [text |-> text, lower |-> toLowerCase(text),
     min |-> minOf(minText), max |-> maxOf(maxText)]

\* mutant: the id has to start with the query
textMatch_idPrefixOnly(p, q) ==
    \/ q.text = << >>
    \/ startsWith(toLowerCase(p.id), q.lower)
    \/ includes(toLowerCase(p.name), q.lower)
    \/ \E t \in p.tags : includes(toLowerCase(TagText[t]), q.lower)

\* textMatch of lines 1064 and 1218
textMatch(p, q) ==
    \/ q.text = << >>
    \/ includes(toLowerCase(p.id), q.lower)
    \/ includes(toLowerCase(p.name), q.lower)
    \/ \E t \in p.tags : includes(toLowerCase(TagText[t]), q.lower)

\* mutant: a problem without rating passes every rating filter
ratingMatch_absentAlways(p, q) ==
    IF p.rating # 0 THEN p.rating >= q.min /\ p.rating <= q.max ELSE TRUE

\* ratingMatch of lines 1065 and 1219; rating 0 is the absent rating
ratingMatch(p, q) ==
    IF p.rating # 0 THEN p.rating >= q.min /\ p.rating <= q.max ELSE q.min = 0

\* isMatch, lines 1217-1221
isMatch(p, q) == textMatch(p, q) /\ ratingMatch(p, q)

\* mutant: an id that holds the query anywhere counts as an id prefix match
scoreOf_idContains(pid, name, q) ==
    IF q.text # << >> /\ pid = q.lower THEN 0
    ELSE IF q.text # << >> /\ includes(pid, q.lower) THEN 1
    ELSE IF q.text # << >> /\ startsWith(name, q.lower) THEN 2
    ELSE 3

\* lines 1224-1227 on pid, the lower-case id, and the lower-case name
scoreOf(pid, name, q) ==
    IF q.text # << >> /\ pid = q.lower THEN 0
    ELSE IF q.text # << >> /\ startsWith(pid, q.lower) THEN 1
    ELSE IF q.text # << >> /\ startsWith(name, q.lower) THEN 2
    ELSE 3

\* getScore, lines 1222-1228
getScore(p, q) == scoreOf(toLowerCase(p.id), toLowerCase(p.name), q)

\* what the comparator reads of a problem: its score, its id and the
\* primary weights of the id
sortKey(p, q) ==
    [score |-> getScore(p, q), id |-> p.id, key |-> collationKey(p.id)]

\* mutant: the tie-break by length of id is left out
compareKeyed_noLength(x, y) ==
    IF x.score # y.score
    THEN x.score - y.score
    ELSE collate(x.key, y.key, x.id, y.id)

\* the comparator of sortProblems, lines 1230-1234, on the keys of a and b
compareKeyed(x, y) ==
    IF x.score # y.score
    THEN x.score - y.score
    ELSE IF Len(x.id) # Len(y.id)
    THEN Len(x.id) - Len(y.id)
    ELSE collate(x.key, y.key, x.id, y.id)

\* the comparator of sortProblems, lines 1230-1234
compareProblems(a, b, q) == compareKeyed(sortKey(a, q), sortKey(b, q))

\* Array.prototype.sort with that comparator: the sort is stable, so an
\* element comes after those that compare lower and after those that compare
\* equal and stand before it in the list
comesBefore(c, j, i) == c < 0 \/ (c = 0 /\ j < i)

sortKeys(list, q) == << >> \o [i \in 1..Len(list) |-> sortKey(list[i], q)]

sortPlaces(keys) ==
    << >> \o [i \in 1..Len(keys) |->
                1 + Cardinality(
                    {j \in 1..Len(keys) :
                        comesBefore(compareKeyed(keys[j], keys[i]), j, i)})]

arrange(list, place) ==
    << >> \o [r \in 1..Len(list) |->
                list[CHOOSE i \in 1..Len(list) : place[i] = r]]

sortProblems(list, q) == arrange(list, sortPlaces(sortKeys(list, q)))

\* the problems of the folders in the order of the two forEach of line 1236
RECURSIVE folderProblems(_)
folderProblems(folders) ==
    IF folders = << >>
    THEN << >>
    ELSE Head(folders).problems \o folderProblems(Tail(folders))

\* myMatches of lines 1235-1236: the first problem of each id that matches
RECURSIVE collectMatches(_, _, _)
collectMatches(list, acc, q) ==
    IF list = << >>
    THEN acc
    ELSE collectMatches(
             Tail(list),
             IF /\ isMatch(Head(list), q)
                /\ \A j \in DOMAIN acc : acc[j].id # Head(list).id
             THEN Append(acc, Head(list))
             ELSE acc,
             q)

\* globalMatches of line 1237
globalMatches(catalog, q) ==
    LET matches(p) == isMatch(p, q)
    IN  SelectSeq(catalog, matches)

firstN(s, n) == SubSeq(s, 1, IF Len(s) < n THEN Len(s) ELSE n)

\* mutant: the cap is applied before the sort
globalResults_capFirst(catalog, q) ==
    sortProblems(firstN(globalMatches(catalog, q), GlobalCap), q)

\* sortProblems(globalMatches).slice(0, 50), line 1238
globalResults(catalog, q) ==
    firstN(sortProblems(globalMatches(catalog, q), q), GlobalCap)

\* lines 1235-1238 for the query q
rankedResults(q, folders, catalog) ==
    [my |-> sortProblems(collectMatches(folderProblems(folders), << >>, q), q),
     global |-> globalResults(catalog, q)]

\* the searchResults memo, lines 1212-1239
searchResultsOf(text, minText, maxText, folders, catalog) ==
    IF text = << >> /\ minText = << >> /\ maxText = << >>
    THEN [my |-> << >>, global |-> << >>]
    ELSE rankedResults(queryOf(text, minText, maxText), folders, catalog)

\* userStatus[id]
statusOf(status, id) ==
    IF id \in DOMAIN status THEN status[id] ELSE "undefined"

\* notSolved of line 1066
notSolved(p, show, status) == ~show \/ statusOf(status, p.id) # "OK"

\* the filter of lines 1063-1068 for the query q
poolOf(catalog, q, show, status) ==
    LET inPool(p) == isMatch(p, q) /\ notSolved(p, show, status)
    IN  SelectSeq(catalog, inPool)

\* pool of lines 1060-1068
pickPool(catalog, text, minText, maxText, show, status) ==
    poolOf(catalog, queryOf(text, minText, maxText), show, status)

\* ---- the catalogs, folders, status maps and inputs tried by SpecSearch
Raw1504A ==
    [contestId |-> 1504, index |-> <<"A">>, name |-> <<"S", "h">>,
     tags |-> Tags({"dp"}), rating |-> 1500]

\* a problem whose name starts with "4a" and whose id does not hold it
Raw7B ==
    [contestId |-> 7, index |-> <<"B">>, name |-> <<"4", "A", "c", "e">>,
     tags |-> Tags({"greedy"}), rating |-> 1900]

ExampleCatalog ==
    normalize(<<Raw1504A, Raw7B, RawReflection, RawWatermelon>>)

\* a catalog with more matches than `global` takes, not in rank order
LongCatalogLen == 52

LongCatalog ==
    normalize([k \in 1..LongCatalogLen |->
                  [contestId |-> 100 + ((7 * k) % 53), index |-> <<"A">>,
                   name |-> <<"P">>,
                   tags |-> IF k % 5 = 0 THEN Tags({"dp"}) ELSE NoTags,
                   rating |-> 800 + 100 * (k % 12)]])

SearchCatalogs == {<< >>, ExampleCatalog, LongCatalog}

\* the object handleImport builds for an id the catalog has not (line 1086)
Imported(id) ==
    [id |-> id, name |-> <<"I", "m", "p", "o", "r", "t", "e", "d">>,
     tags |-> {}, rating |-> 0, contestId |-> 0]

FolderChoices ==
    {<<FavDefault>>,
     <<[id |-> "fav_def", title |-> "My Favorites",
        problems |-> <<normalizeProblem(RawReflection),
                       Imported(<<"9", "4", "A">>),
                       normalizeProblem(Raw1504A)>>],
       [id |-> "f_1", title |-> "Later",
        problems |-> <<normalizeProblem(RawWatermelon),
                       normalizeProblem(RawReflection),
                       normalizeProblem(Raw7B)>>]>>}

StatusChoices ==
    {<< >>,
     (<<"4", "A">> :> "OK") @@ (<<"4", "4", "A">> :> "WRONG")
         @@ (<<"1", "0", "1", "A">> :> "OK")}

Queries == {<< >>, <<"4", "a">>, <<"4", "A">>, <<"m", "a">>, <<"1">>}

MinInputs == {<< >>, <<"0">>, <<"1", "5", "0", "0">>}

MaxInputs == {<< >>, <<"1", "9", "0", "0">>}

\* the page is still the one the component runs on
OnPage == ~pick.navigated

\* onChange of the search box (1274) and the render that follows
setSearchText(text) ==
    /\ OnPage
    /\ searchText' = text
    /\ searchResults' = searchResultsOf(text, minRating, maxRating, myFolders,
                                        allProblemsCache)
    /\ UNCHANGED <<minRating, maxRating, myFolders, userStatus, showStatus,
                   pick, storeVars, readVars, catVars,
                   uiVars>>

\* onChange of the Min box (1279) and the render that follows
setMinRating(text) ==
    /\ OnPage
    /\ minRating' = text
    /\ searchResults' = searchResultsOf(searchText, text, maxRating, myFolders,
                                        allProblemsCache)
    /\ UNCHANGED <<searchText, maxRating, myFolders, userStatus, showStatus,
                   pick, storeVars, readVars, catVars,
                   uiVars>>

\* onChange of the Max box (1281) and the render that follows
setMaxRating(text) ==
    /\ OnPage
    /\ maxRating' = text
    /\ searchResults' = searchResultsOf(searchText, minRating, text, myFolders,
                                        allProblemsCache)
    /\ UNCHANGED <<searchText, minRating, myFolders, userStatus, showStatus,
                   pick, storeVars, readVars, catVars,
                   uiVars>>

\* the pool handleRandomPick draws from in this state
currentPool ==
    pickPool(allProblemsCache, searchText, minRating, maxRating, showStatus,
             userStatus)

\* the test of line 1071: the id starts with a digit
matchesProblemUrl(id) == id # << >> /\ isDigit(Head(id))

\* mutant: the pool is filtered without the test of line 1059
handleRandomPick_noCatalogCheck ==
    /\ OnPage
    /\ IF currentPool = << >>
       THEN pick' = [outcome |-> "alert",
                     alert |-> "No unsolved problems found.",
                     id |-> << >>, navigated |-> FALSE]
       ELSE \E r \in 1..Len(currentPool) :
               pick' = [outcome |-> "picked", alert |-> "",
                        id |-> currentPool[r].id,
                        navigated |-> matchesProblemUrl(currentPool[r].id)]
    /\ UNCHANGED <<searchText, minRating, maxRating, myFolders, searchResults,
                   userStatus, showStatus, storeVars, readVars, catVars,
                   uiVars>>

\* handleRandomPick, lines 1058-1073; Math.random picks any index of the pool
handleRandomPick ==
    /\ OnPage
    /\ IF allProblemsCache = << >>
       THEN pick' = [outcome |-> "alert",
                     alert |-> "Index empty. Please download first.",
                     id |-> << >>, navigated |-> FALSE]
       ELSE IF currentPool = << >>
       THEN pick' = [outcome |-> "alert",
                     alert |-> "No unsolved problems found.",
                     id |-> << >>, navigated |-> FALSE]
       ELSE \E r \in 1..Len(currentPool) :
               pick' = [outcome |-> "picked", alert |-> "",
                        id |-> currentPool[r].id,
                        navigated |-> matchesProblemUrl(currentPool[r].id)]
    /\ UNCHANGED <<searchText, minRating, maxRating, myFolders, searchResults,
                   userStatus, showStatus, storeVars, readVars, catVars,
                   uiVars>>

\* the component after its start-up, with a catalog loaded or none, the
\* custom folders, the status map and the setting of an earlier session;
\* filled custom folders are tried next to the example catalog
InitSearch ==
    /\ allProblemsCache \in SearchCatalogs
    /\ storage = IF allProblemsCache = << >>
                 THEN NoSnapshot
                 ELSE snapshotOf(allProblemsCache, SnapshotTime)
    /\ systemFolders = IF allProblemsCache = << >>
                       THEN emptySysFolders
                       ELSE classify(allProblemsCache)
    /\ isLoading = FALSE
    /\ started = TRUE
    /\ now = SnapshotTime
    /\ refresh = [i \in Slots |-> IdleCall]
    /\ consoleErrors = FALSE
    /\ searchText = << >>
    /\ minRating = << >>
    /\ maxRating = << >>
    /\ myFolders \in FolderChoices
    /\ allProblemsCache # ExampleCatalog => myFolders = <<FavDefault>>
    /\ searchResults = [my |-> << >>, global |-> << >>]
    /\ userStatus \in StatusChoices
    /\ showStatus \in BOOLEAN
    /\ pick = NoPick
    /\ store = EmptyStore
    /\ txStore = EmptyStore
    /\ txActive = FALSE
    /\ batch = << >>
    /\ pos = 0
    /\ preStore = EmptyStore
    /\ mergedIds = {}
    /\ lastOp = "none"
    /\ syncPc = "idle"
    /\ syncStatus = ""
    /\ userHandle = "tourist"
    /\ lastAlert = ""
    /\ limit = 0
    /\ recent = << >>
    /\ readPc = "idle"
    /\ UiIdle
    /\ selectedFolderId = myFolders[1].id

NextSearch ==
    \/ \E text \in Queries : setSearchText(text)
    \/ \E text \in MinInputs : setMinRating(text)
    \/ \E text \in MaxInputs : setMaxRating(text)
    \/ handleRandomPick

SpecSearch == InitSearch /\ [][NextSearch]_vars

\* ------------------------------------------------- refreshDbCount (794-799)
\* slice of the preview, line 797
PreviewLimit == 50

\* mutant: a call made while another waits for its count is dropped, and so
\* is the one made by handleClearDb
refreshDbCountCalled_afterSyncOnly(calls, op) ==
    IF op = "clear" \/ calls # << >> THEN calls ELSE <<"count">>

\* the stages of a refreshDbCount call
CallStages == <<"count", "preview">>

\* the calls with one more at the given stage.  A call is "count" until its
\* count has been read and set and "preview" until its preview has been
\* read.  Calls that wait at one stage together read the same committed
\* store one after the other, so the model holds one of them for all.
withCall(calls, stage) ==
    IF \E k \in 1..Len(calls) : calls[k] = stage
    THEN calls
    ELSE Append(calls, stage)

\* the calls without the one at place k
withoutCall(calls, k) ==
    SubSeq(calls, 1, k - 1) \o SubSeq(calls, k + 1, Len(calls))

\* refreshDbCount() called and not awaited (940, 951, 790, 1156), up to its
\* first await
refreshDbCountCalled(calls, op) == withCall(calls, "count")

\* ------------------------------------------------- handleSyncData (930-947)
\* One handleSyncData runs at a time here: IndexedDB runs the readwrite
\* transactions on one object store one after the other.
handleSyncData ==
    /\ syncPc = "idle"
    /\ IF userHandle = ""
       THEN /\ lastAlert' = "Please set Handle first."
            /\ UNCHANGED <<syncPc, syncStatus>>
       ELSE /\ syncPc' = "fetching"
            /\ syncStatus' = "Fetching..."
            /\ UNCHANGED lastAlert
    /\ UNCHANGED <<store, txStore, txActive, batch, pos, preStore, mergedIds,
                   lastOp, userHandle, readVars, catVars,
                   searchVars, uiVars>>

\* fetch or res.json() throws: catch of line 944
syncNetworkError ==
    /\ syncPc = "fetching"
    /\ syncPc' = "idle"
    /\ syncStatus' = "Network Error"
    /\ UNCHANGED <<store, txStore, txActive, batch, pos, preStore, mergedIds,
                   lastOp, userHandle, lastAlert, readVars, catVars,
                   searchVars, uiVars>>

\* data.status # "OK": line 942
syncStatusError(comment) ==
    /\ syncPc = "fetching"
    /\ syncPc' = "idle"
    /\ syncStatus' = "Error: " \o comment
    /\ UNCHANGED <<store, txStore, txActive, batch, pos, preStore, mergedIds,
                   lastOp, userHandle, lastAlert, readVars, catVars,
                   searchVars, uiVars>>

\* data.status = "OK": lines 937-938 and db.ts 41-43
syncSaving(subs) ==
    /\ syncPc = "fetching"
    /\ ~txActive
    /\ syncPc' = "saving"
    /\ syncStatus' = "Saving..."
    /\ txActive' = TRUE
    /\ batch' = subs
    /\ pos' = 0
    /\ txStore' = store
    /\ preStore' = store
    /\ lastOp' = "none"
    /\ UNCHANGED <<store, mergedIds, userHandle, lastAlert, readVars, catVars,
                   searchVars, uiVars>>

\* mutant: a record that fails the test of line 45 ends the loop
saveSubmissionsStep_break ==
    /\ txActive
    /\ pos < Len(batch)
    /\ txStore' = saveOne(txStore, batch[pos + 1])
    /\ pos' = IF isKeyed(batch[pos + 1]) THEN pos + 1 ELSE Len(batch)
    /\ store' = txVisible(store, txStore')
    /\ UNCHANGED <<txActive, batch, preStore, mergedIds, lastOp, syncPc,
                   syncStatus, userHandle, lastAlert, readVars, catVars,
                   searchVars, uiVars>>

\* db.ts 44-66, one record
saveSubmissionsStep ==
    /\ txActive
    /\ pos < Len(batch)
    /\ txStore' = saveOne(txStore, batch[pos + 1])
    /\ pos' = pos + 1
    /\ store' = txVisible(store, txStore')
    /\ UNCHANGED <<txActive, batch, preStore, mergedIds, lastOp, syncPc,
                   syncStatus, userHandle, lastAlert, readVars, catVars,
                   searchVars, uiVars>>

\* db.ts 67 (tx.done), then lines 939-940
saveSubmissionsDone ==
    /\ txActive
    /\ pos = Len(batch)
    /\ store' = txStore
    /\ txStore' = txStore
    /\ preStore' = txStore
    /\ txActive' = FALSE
    /\ batch' = <<>>
    /\ pos' = 0
    /\ mergedIds' = mergedIds \cup ValidIds(batch)
    /\ lastOp' = "save"
    /\ syncPc' = "idle"
    /\ syncStatus' = "Done!"
    /\ countCalls' = refreshDbCountCalled(countCalls, "save")
    /\ UNCHANGED <<userHandle, lastAlert, readVars, catVars, searchVars,
                   dbCount, exportFormat, exportOnlyAC, exported, folderVars,
                   loaders, statusCall>>

\* a request of the transaction fails: the transaction aborts, saveSubmissions
\* rejects and handleSyncData lands in the catch of line 944
saveSubmissionsAbort ==
    /\ txActive
    /\ txActive' = FALSE
    /\ txStore' = store
    /\ preStore' = store
    /\ batch' = <<>>
    /\ pos' = 0
    /\ lastOp' = "abort"
    /\ syncPc' = "idle"
    /\ syncStatus' = "Network Error"
    /\ UNCHANGED <<store, mergedIds, userHandle, lastAlert, readVars, catVars,
                   searchVars, uiVars>>

\* handleClearDb, lines 949-955, confirmed by the user; db.ts 80-83
handleClearDb ==
    /\ ~txActive
    /\ store' = EmptyStore
    /\ txStore' = EmptyStore
    /\ preStore' = EmptyStore
    /\ mergedIds' = {}
    /\ lastOp' = "clear"
    /\ syncStatus' = ""
    /\ countCalls' = refreshDbCountCalled(countCalls, "clear")
    /\ UNCHANGED <<txActive, batch, pos, syncPc, userHandle, lastAlert,
                   readVars, catVars, searchVars, dbCount, exportFormat,
                   exportOnlyAC, exported, folderVars, loaders, statusCall>>

\* the mechanism outside this repository that fills `code` of a stored record
attachCode(id, c) ==
    /\ ~txActive
    /\ id \in DOMAIN store
    /\ store' = [store EXCEPT ![id].code = c]
    /\ txStore' = store'
    /\ preStore' = store'
    /\ UNCHANGED <<txActive, batch, pos, mergedIds, lastOp, syncPc, syncStatus,
                   userHandle, lastAlert, readVars, catVars,
                   searchVars, uiVars>>

InitStore ==
    /\ store = EmptyStore
    /\ txStore = EmptyStore
    /\ txActive = FALSE
    /\ batch = <<>>
    /\ pos = 0
    /\ preStore = EmptyStore
    /\ mergedIds = {}
    /\ lastOp = "none"
    /\ syncPc = "idle"
    /\ syncStatus = ""
    /\ userHandle \in {"", "tourist"}
    /\ lastAlert = ""
    /\ limit = 0
    /\ recent = << >>
    /\ readPc = "idle"
    /\ CatalogUnused
    /\ SearchUnused
    /\ UiUnused

NextStore ==
    \/ handleSyncData
    \/ syncNetworkError
    \/ \E c \in Comments : syncStatusError(c)
    \/ \E subs \in Batches : syncSaving(subs)
    \/ saveSubmissionsStep
    \/ saveSubmissionsDone
    \/ saveSubmissionsAbort
    \/ handleClearDb
    \/ \E id \in Ids, c \in StoredCodes : attachCode(id, c)

SpecStore == InitStore /\ [][NextStore]_vars

\* ----------------------------------------------------------- SpecFailures
\* the two operations that talk to the Codeforces API, side by side
ShortBatches == {b \in Batches : Len(b) <= 1 /\ \A k \in DOMAIN b : b[k].id = 1}

NextFailures ==
    \/ initEffect
    \/ downloadClicked
    \/ refreshClicked
    \/ \E i \in Slots, resp \in Responses : fetchCFProblemsEnd(i, resp)
    \/ handleSyncData
    \/ syncNetworkError
    \/ \E c \in Comments : syncStatusError(c)
    \/ \E subs \in ShortBatches : syncSaving(subs)
    \/ saveSubmissionsStep
    \/ saveSubmissionsDone
    \/ saveSubmissionsAbort

SpecFailures == InitStore /\ [][NextFailures]_vars

\* ------------------------------------------------------------- SpecReads
\* the stores the schema of lines 3-24 allows over keys 1..MaxReadId
ReadRecords ==
    [id : 1..MaxReadId, name : {"A"}, verdict : Verdicts,
     creationTimeSeconds : ReadTimes, code : {NoCode}]

TypedStores ==
    UNION {{s \in [K -> ReadRecords] : \A k \in K : s[k].id = k} :
           K \in SUBSET (1..MaxReadId)}

InitReads ==
    /\ store \in TypedStores
    /\ txStore = store
    /\ preStore = store
    /\ txActive = FALSE
    /\ batch = << >>
    /\ pos = 0
    /\ mergedIds = DOMAIN store
    /\ lastOp = "none"
    /\ syncPc = "idle"
    /\ syncStatus = ""
    /\ userHandle = "tourist"
    /\ lastAlert = ""
    /\ limit \in 0..MaxLimit
    /\ recent = << >>
    /\ readPc = "idle"
    /\ CatalogUnused
    /\ SearchUnused
    /\ UiUnused

\* getRecentSubmissions(limit), db.ts 85-94
readRecent ==
    /\ readPc = "idle"
    /\ recent' = getRecentSubmissions(store, limit)
    /\ readPc' = "done"
    /\ UNCHANGED <<storeVars, limit, catVars, searchVars, uiVars>>

NextReads == readRecent

SpecReads == InitReads /\ [][NextReads]_vars

\* ---------------------------------------- handleExportHistory (957-985)
\* Text of the exported file is a sequence of one-character strings, and so
\* are the name, verdict and language of the records it is made from.
Quote == "\""

WordExtras == <<"_">>

\* \w of the regular expression of line 716
isWordChar(c) ==
    \/ isDigit(c)
    \/ isUpper(c)
    \/ \E k \in 1..Len(LowerLetters) : LowerLetters[k] = c
    \/ \E k \in 1..Len(WordExtras) : WordExtras[k] = c

\* String.prototype.toUpperCase, one character
upperChar(c) ==
    IF \E k \in 1..Len(LowerLetters) : LowerLetters[k] = c
    THEN UpperLetters[CHOOSE k \in 1..Len(LowerLetters) : LowerLetters[k] = c]
    ELSE c

\* verdict.replace(/_/g, ' ')
replaceUnderscores(s) ==
    << >> \o [k \in 1..Len(s) |-> IF s[k] = "_" THEN " " ELSE s[k]]

\* text.replace(/\b\w/g, c => c.toUpperCase()): a word character that does
\* not follow a word character starts a word
capitalizeWords(s) ==
    << >> \o [k \in 1..Len(s) |->
                 IF isWordChar(s[k]) /\ (k = 1 \/ ~isWordChar(s[k - 1]))
                 THEN upperChar(s[k])
                 ELSE s[k]]

VerdictOK == <<"O", "K">>

VerdictCompilationError ==
    <<"C", "O", "M", "P", "I", "L", "A", "T", "I", "O", "N", "_", "E", "R",
      "R", "O", "R">>

AcceptedText == <<"A", "c", "c", "e", "p", "t", "e", "d">>

CompilationErrorText ==
    <<"C", "o", "m", "p", "i", "l", "a", "t", "i", "o", "n", " ", "E", "r",
      "r", "o", "r">>

OnTestText == <<" ", "o", "n", " ", "t", "e", "s", "t", " ">>

\* the list of line 717
TestVerdictTexts ==
    {<<"W", "r", "o", "n", "g", " ", "A", "n", "s", "w", "e", "r">>,
     <<"T", "i", "m", "e", " ", "L", "i", "m", "i", "t", " ", "E", "x", "c",
     "e", "e", "d", "e", "d">>,
     <<"M", "e", "m", "o", "r", "y", " ", "L", "i", "m", "i", "t", " ", "E",
     "x", "c", "e", "e", "d", "e", "d">>,
     <<"R", "u", "n", "t", "i", "m", "e", " ", "E", "r", "r", "o", "r">>}

\* mutant: the number of passed tests is printed as it is
formatVerdictDetailed_passedCount(verdict, passedCount) ==
    IF verdict = << >> THEN << >>
    ELSE IF verdict = VerdictOK THEN AcceptedText
    ELSE IF verdict = VerdictCompilationError THEN CompilationErrorText
    ELSE LET text == capitalizeWords(toLowerCase(replaceUnderscores(verdict)))
         IN  IF text \in TestVerdictTexts
             THEN text \o OnTestText \o Digits(passedCount)
             ELSE text

\* formatVerdictDetailed, lines 712-721
formatVerdictDetailed(verdict, passedCount) ==
    IF verdict = << >> THEN << >>
    ELSE IF verdict = VerdictOK THEN AcceptedText
    ELSE IF verdict = VerdictCompilationError THEN CompilationErrorText
    ELSE LET text == capitalizeWords(toLowerCase(replaceUnderscores(verdict)))
         IN  IF text \in TestVerdictTexts
             THEN text \o OnTestText \o Digits(passedCount + 1)
             ELSE text

\* formatMemoryKB, lines 723-725; Math.round rounds a half upwards
formatMemoryKB(bytes) ==
    LET rounded == (2 * bytes + 1024) \div 2048
    IN  IF rounded > 0 THEN rounded ELSE 0

\* pad of line 708
pad(n) == IF n < 10 THEN <<"0">> \o Digits(n) ELSE Digits(n)

SecondsPerDay == 24 * 60 * 60

\* formatFullDate, lines 706-710, in a browser whose time zone is UTC and
\* for the moments of January 1970
formatFullDate(unix) ==
    LET day == (unix \div SecondsPerDay) + 1
        hours == (unix % SecondsPerDay) \div 3600
        minutes == (unix % 3600) \div 60
        seconds == unix % 60
    IN  <<"1", "9", "7", "0", "-", "0", "1", "-">> \o pad(day) \o <<" ">>
            \o pad(hours) \o <<":">> \o pad(minutes) \o <<":">>
            \o pad(seconds)

\* (row.name || "").replace(/"/g, '""') of line 974
RECURSIVE escapeQuotes(_)
escapeQuotes(s) ==
    IF s = << >> THEN << >>
    ELSE (IF Head(s) = Quote THEN <<Quote, Quote>> ELSE <<Head(s)>>)
             \o escapeQuotes(Tail(s))

\* `"${...}"`
quoted(s) == <<Quote>> \o s \o <<Quote>>

\* Array.prototype.join
RECURSIVE join(_, _)
join(cells, sep) ==
    IF cells = << >> THEN << >>
    ELSE IF Len(cells) = 1 THEN cells[1]
    ELSE cells[1] \o sep \o join(Tail(cells), sep)

\* the array of lines 972-977, each value as join prints it; rating 0 is
\* the absent rating
csvValues(row) ==
    <<Digits(row.id), Digits(row.contestId), row.index,
      quoted(escapeQuotes(row.name)),
      IF row.rating = 0 THEN << >> ELSE Digits(row.rating),
      quoted(formatVerdictDetailed(row.verdict, row.passedTestCount)),
      quoted(row.programmingLanguage),
      Digits(row.timeConsumedMillis),
      Digits(formatMemoryKB(row.memoryConsumedBytes)),
      quoted(formatFullDate(row.creationTimeSeconds))>>

\* line 966
headers ==
    <<<<"S", "u", "b", "m", "i", "s", "s", "i", "o", "n", " ", "I", "D">>,
      <<"C", "o", "n", "t", "e", "s", "t">>,
      <<"I", "n", "d", "e", "x">>,
      <<"P", "r", "o", "b", "l", "e", "m", " ", "N", "a", "m", "e">>,
      <<"R", "a", "t", "i", "n", "g">>,
      <<"V", "e", "r", "d", "i", "c", "t">>,
      <<"L", "a", "n", "g", "u", "a", "g", "e">>,
      <<"T", "i", "m", "e", " ", "(", "m", "s", ")">>,
      <<"M", "e", "m", "o", "r", "y", " ", "(", "K", "B", ")">>,
      <<"D", "a", "t", "e", " ", "T", "i", "m", "e">>>>

\* csvRows of lines 967-979
csvRows(data) ==
    <<join(headers, <<",">>)>>
        \o [k \in 1..Len(data) |-> join(csvValues(data[k]), <<",">>)]

\* mutant: the index read with direction 'prev'
indexFirst_prev(s, keys) ==
    CHOOSE k \in keys :
        \A j \in keys :
            \/ s[j].creationTimeSeconds < s[k].creationTimeSeconds
            \/ s[j].creationTimeSeconds = s[k].creationTimeSeconds /\ j <= k

\* the first record of index 'by-creation' among keys: the least
\* creationTimeSeconds, and among equal ones the least primary key
indexFirst(s, keys) ==
    CHOOSE k \in keys :
        \A j \in keys :
            \/ s[j].creationTimeSeconds > s[k].creationTimeSeconds
            \/ s[j].creationTimeSeconds = s[k].creationTimeSeconds /\ j >= k

\* db.getAllFromIndex('submissions', 'by-creation'), db.ts 99
RECURSIVE getAllFromIndex(_, _)
getAllFromIndex(s, keys) ==
    IF keys = {} THEN << >>
    ELSE LET k == indexFirst(s, keys)
         IN  <<s[k]>> \o getAllFromIndex(s, keys \ {k})

\* querySubmissions, db.ts 97-109
querySubmissions(s, onlyAC) ==
    LET all == getAllFromIndex(s, DOMAIN s)
        accepted(sub) == sub.verdict = VerdictOK
    IN  IF ~onlyAC THEN all ELSE SelectSeq(all, accepted)

\* Array.prototype.reverse
reverse(list) == << >> \o [k \in 1..Len(list) |-> list[Len(list) + 1 - k]]

\* ---- the stores tried by SpecExport
\* the verdicts of the Codeforces API, and the absent verdict
ExportVerdicts ==
    <<<<"O", "K">>,
      <<"C", "O", "M", "P", "I", "L", "A", "T", "I", "O", "N", "_", "E", "R",
       "R", "O", "R">>,
      <<"W", "R", "O", "N", "G", "_", "A", "N", "S", "W", "E", "R">>,
      <<"T", "I", "M", "E", "_", "L", "I", "M", "I", "T", "_", "E", "X", "C",
       "E", "E", "D", "E", "D">>,
      <<"M", "E", "M", "O", "R", "Y", "_", "L", "I", "M", "I", "T", "_", "E",
       "X", "C", "E", "E", "D", "E", "D">>,
      <<"R", "U", "N", "T", "I", "M", "E", "_", "E", "R", "R", "O", "R">>,
      <<"F", "A", "I", "L", "E", "D">>,
      <<"P", "A", "R", "T", "I", "A", "L">>,
      <<"P", "R", "E", "S", "E", "N", "T", "A", "T", "I", "O", "N", "_", "E",
       "R", "R", "O", "R">>,
      <<"I", "D", "L", "E", "N", "E", "S", "S", "_", "L", "I", "M", "I", "T",
       "_", "E", "X", "C", "E", "E", "D", "E", "D">>,
      <<"S", "E", "C", "U", "R", "I", "T", "Y", "_", "V", "I", "O", "L", "A",
       "T", "E", "D">>,
      <<"C", "R", "A", "S", "H", "E", "D">>,
      <<"I", "N", "P", "U", "T", "_", "P", "R", "E", "P", "A", "R", "A", "T",
       "I", "O", "N", "_", "C", "R", "A", "S", "H", "E", "D">>,
      <<"C", "H", "A", "L", "L", "E", "N", "G", "E", "D">>,
      <<"S", "K", "I", "P", "P", "E", "D">>,
      <<"T", "E", "S", "T", "I", "N", "G">>,
      <<"R", "E", "J", "E", "C", "T", "E", "D">>,
      <<>>>>

\* ids of the records in the stores SpecExport starts from
MaxExportId == 2

\* the k-th sample record under primary key id: verdict k of the list, a
\* name and a language with and without double quotes, two moments so that
\* records can tie on creationTimeSeconds
ExportSample(id, k) ==
    [id |-> id, contestId |-> 1500 + k, index |-> <<"A">>,
     name |-> IF k % 3 = 0
              THEN <<"H", "e", " ", "s", "a", "i", "d", " ", "\"", "h", "i",
                    "\"">>
              ELSE <<"A">>,
     rating |-> IF k % 2 = 0 THEN 0 ELSE 1200,
     verdict |-> ExportVerdicts[k],
     programmingLanguage |-> IF k % 4 = 0
                             THEN <<"C", " ", "\"", "1", "1", "\"">>
                             ELSE <<"G", "o">>,
     passedTestCount |-> (k + 2) % 3,
     timeConsumedMillis |-> 46,
     memoryConsumedBytes |-> 512 * (k % 4),
     creationTimeSeconds |-> IF k % 2 = 0 THEN 100 ELSE 90061,
     code |-> NoCode]

\* stores over the keys 1..MaxExportId whose records are samples at most two
\* places apart in the list
ExportStores ==
    UNION {{[id \in K |-> ExportSample(id, c[id])] :
               c \in {d \in [K -> 1..Len(ExportVerdicts)] :
                         \A i, j \in K : d[i] - d[j] <= 2}} :
           K \in SUBSET (1..MaxExportId)}

\* the select of line 1501
setExportFormat(f) ==
    /\ exportFormat' = f
    /\ UNCHANGED <<dbCount, countCalls, exportOnlyAC, exported, folderVars,
                   loaders, statusCall, storeVars, readVars, catVars,
                   searchVars>>

\* the checkbox of line 1508
setExportOnlyAC(b) ==
    /\ exportOnlyAC' = b
    /\ UNCHANGED <<dbCount, countCalls, exportFormat, exported, folderVars,
                   loaders, statusCall, storeVars, readVars, catVars,
                   searchVars>>

\* handleExportHistory, lines 957-985; downloadFile gets JSON.stringify of
\* data, or the lines of csvRows joined by line feeds after the byte order
\* mark
handleExportHistory ==
    /\ ~txActive
    /\ IF dbCount = 0
       THEN /\ lastAlert' = "No data to export. Please Sync first."
            /\ exported' = [outcome |-> "refused", format |-> exportFormat,
                            data |-> << >>, lines |-> << >>]
            /\ UNCHANGED syncStatus
       ELSE /\ LET data == reverse(querySubmissions(store, exportOnlyAC))
               IN  exported' = [outcome |-> "exported",
                                format |-> exportFormat,
                                data |-> data,
                                lines |-> IF exportFormat = "json"
                                          THEN << >>
                                          ELSE csvRows(data)]
            /\ syncStatus' = "Exported!"
            /\ UNCHANGED lastAlert
    /\ UNCHANGED <<store, txStore, txActive, batch, pos, preStore, mergedIds,
                   lastOp, syncPc, userHandle, dbCount, countCalls,
                   exportFormat, exportOnlyAC, folderVars, loaders,
                   statusCall, readVars, catVars, searchVars>>

\* the data view after its start-up: a store an earlier session filled,
\* counted by the refreshDbCount of line 1156
InitExport ==
    /\ store \in ExportStores
    /\ txStore = store
    /\ preStore = store
    /\ txActive = FALSE
    /\ batch = << >>
    /\ pos = 0
    /\ mergedIds = DOMAIN store
    /\ lastOp = "none"
    /\ syncPc = "idle"
    /\ syncStatus = ""
    /\ userHandle = "tourist"
    /\ lastAlert = ""
    /\ limit = 0
    /\ recent = << >>
    /\ readPc = "idle"
    /\ CatalogUnused
    /\ SearchUnused
    /\ dbCount = storeCount(store)
    /\ countCalls = << >>
    /\ exportFormat = "csv"
    /\ exportOnlyAC = FALSE
    /\ exported = NoExport
    /\ selectedFolderId = ""
    /\ activeProblem = NoActive
    /\ contextMenu = NoActive
    /\ loaders = NoLoaders
    /\ statusCall = IdleStatusCall

NextExport ==
    \/ \E f \in {"csv", "json"} : setExportFormat(f)
    \/ \E b \in BOOLEAN : setExportOnlyAC(b)
    \/ handleExportHistory

SpecExport == InitExport /\ [][NextExport]_vars

\* ------------------------------------------- custom folders (1015-1106)
\* custom folders and problems per folder the operations build up to, and
\* folders made in a session
MaxFolders == 2
MaxFolderProblems == 2
MaxCreates == 1

\* position of the folder with id fid in folders, 0 when there is none:
\* findIndex of lines 1020, 1032 and 1049, counted from 1
findIndex(folders, fid) ==
    IF \E k \in 1..Len(folders) : folders[k].id = fid
    THEN CHOOSE k \in 1..Len(folders) :
             /\ folders[k].id = fid
             /\ \A j \in 1..(k - 1) : folders[j].id # fid
    ELSE 0

\* problems.some(p => p.id === id)
hasProblem(folder, id) ==
    \E k \in 1..Len(folder.problems) : folder.problems[k].id = id

\* allProblemsCache.find(p => p.id === id) || fallback
findProblem(catalog, id, fallback) ==
    IF \E k \in 1..Len(catalog) : catalog[k].id = id
    THEN catalog[CHOOSE k \in 1..Len(catalog) :
                     /\ catalog[k].id = id
                     /\ \A j \in 1..(k - 1) : catalog[j].id # id]
    ELSE fallback

\* nf[idx].problems.push(p)
pushProblem(folders, idx, p) ==
    [folders EXCEPT ![idx].problems = Append(@, p)]

\* `f_${Date.now()}` and `fav_${Date.now()}`
folderId(prefix, t) == prefix \o ToString(t)

\* String.prototype.toUpperCase
toUpperCase(s) == << >> \o [k \in 1..Len(s) |-> upperChar(s[k])]

isLetter(c) == isUpper(c) \/ isUpper(upperChar(c))

\* the end of the run of digits of line that starts at place i
RECURSIVE digitsEnd(_, _)
digitsEnd(line, i) ==
    IF i < Len(line) /\ isDigit(line[i + 1]) THEN digitsEnd(line, i + 1) ELSE i

\* the places where /(\d+)([A-Z]\d?)/i matches: a digit with a letter
\* right after the run of digits it starts
idMatchStarts(line) ==
    {i \in 1..Len(line) :
        /\ isDigit(line[i])
        /\ digitsEnd(line, i) < Len(line)
        /\ isLetter(line[digitsEnd(line, i) + 1])}

\* pId of line 1084 for a line that holds no URL: the first match of
\* idRegex in upper case, or the empty text
importedId(line) ==
    IF idMatchStarts(line) = {} THEN << >>
    ELSE LET i == CHOOSE a \in idMatchStarts(line) :
                      \A b \in idMatchStarts(line) : a <= b
             letter == digitsEnd(line, i) + 1
             last == IF letter < Len(line) /\ isDigit(line[letter + 1])
                     THEN letter + 1
                     ELSE letter
         IN  toUpperCase(SubSeq(line, i, last))

\* the loop of lines 1080-1086
RECURSIVE importedProblems(_, _, _)
importedProblems(lines, catalog, acc) ==
    IF lines = << >> THEN acc
    ELSE LET pId == importedId(Head(lines))
         IN  importedProblems(
                 Tail(lines), catalog,
                 IF pId = << >>
                 THEN acc
                 ELSE Append(acc, findProblem(catalog, pId, Imported(pId))))

\* ---- the inputs tried by SpecFolders
\* setActiveProblem of checkUrl (1117) for the URL of a catalog problem and
\* of a problem the catalog has not
PageProblems ==
    {[id |-> <<"4", "A">>, name |-> <<"P">>, tags |-> {}, rating |-> 0,
      contestId |-> 0],
     [id |-> <<"9", "Z">>, name |-> <<"P">>, tags |-> {}, rating |-> 0,
      contestId |-> 0]}

\* the lines of the import box after split, trim and filter (1076); the
\* first is the title
ImportLines == {<<"4", "A">>, <<"4", "a">>, <<"n", "o", "t", "e">>}

ImportTexts ==
    {<< >>}
    \cup {<<"T">>} \X ImportLines
    \cup {<<"T">>} \X ImportLines \X ImportLines

\* the content of the file handed to handleImportFile: a backup of folders,
\* or JSON that is no array
ImportFiles ==
    {[kind |-> "array",
      folders |-> <<[id |-> "f_backup", title |-> "Later",
                     problems |-> <<Imported(<<"4", "A">>)>>]>>],
     [kind |-> "object", folders |-> << >>]}

FolderTitles == {"Later"}

FolderCatalog == normalize(<<RawWatermelon, RawReflection>>)

\* the problems a context menu is opened on
MenuProblems == {normalizeProblem(RawReflection)}

SessionEnd == SnapshotTime + MaxCreates

\* popstate: checkUrl, line 1117
checkUrl(p) ==
    /\ activeProblem' = p
    /\ UNCHANGED <<selectedFolderId, contextMenu, exportVars, loaders,
                   statusCall, storeVars, readVars, catVars, searchVars>>

\* handleContextMenu, lines 1043-1046, on a problem of the page's lists
handleContextMenu(p) ==
    /\ contextMenu' = p
    /\ UNCHANGED <<selectedFolderId, activeProblem, exportVars, loaders,
                   statusCall, storeVars, readVars, catVars, searchVars>>

\* the select of line 1266: one of the folders shown
selectFolder(k) ==
    /\ k \in 1..Len(myFolders)
    /\ selectedFolderId' = myFolders[k].id
    /\ UNCHANGED <<activeProblem, contextMenu, exportVars, loaders,
                   statusCall, storeVars, readVars, catVars, searchVars>>

\* addProblem, lines 1015-1029, with a problem on the page; the call does
\* something: the returns of lines 1019 and 1021 leave every variable as it
\* is
addProblem ==
    /\ activeProblem # NoActive
    /\ LET targetId == IF selectedFolderId = "" /\ myFolders # << >>
                       THEN myFolders[1].id
                       ELSE selectedFolderId
           idx == findIndex(myFolders, targetId)
       IN  /\ targetId # ""
           /\ selectedFolderId' = targetId
           /\ idx > 0
           /\ IF hasProblem(myFolders[idx], activeProblem.id)
              THEN /\ lastAlert' = "Exists!"
                   /\ UNCHANGED myFolders
              ELSE /\ Len(myFolders[idx].problems) < MaxFolderProblems
                   /\ myFolders' = pushProblem(myFolders, idx,
                                       findProblem(allProblemsCache,
                                                   activeProblem.id,
                                                   activeProblem))
                   /\ lastAlert' = "Added!"
    /\ UNCHANGED <<store, txStore, txActive, batch, pos, preStore, mergedIds,
                   lastOp, syncPc, syncStatus, userHandle, searchText,
                   minRating, maxRating, searchResults, userStatus,
                   showStatus, pick, activeProblem, contextMenu, exportVars,
                   loaders, statusCall, readVars, catVars>>

\* addProblemToFolder, lines 1047-1056, from the context menu of a problem
addProblemToFolder(fid) ==
    /\ contextMenu # NoActive
    /\ LET idx == findIndex(myFolders, fid)
       IN  /\ idx > 0
           /\ IF hasProblem(myFolders[idx], contextMenu.id)
              THEN /\ lastAlert' = "Problem already in folder."
                   /\ UNCHANGED myFolders
              ELSE /\ Len(myFolders[idx].problems) < MaxFolderProblems
                   /\ myFolders' = pushProblem(myFolders, idx, contextMenu)
                   /\ UNCHANGED lastAlert
    /\ UNCHANGED <<store, txStore, txActive, batch, pos, preStore, mergedIds,
                   lastOp, syncPc, syncStatus, userHandle, searchText,
                   minRating, maxRating, searchResults, userStatus,
                   showStatus, pick, uiVars, readVars, catVars>>

\* deleteProblem, lines 1031-1038
deleteProblem(fid, pid) ==
    /\ LET idx == findIndex(myFolders, fid)
           others(p) == p.id # pid
       IN  /\ idx > 0
           /\ myFolders' = [myFolders EXCEPT
                               ![idx].problems = SelectSeq(@, others)]
    /\ UNCHANGED <<searchText, minRating, maxRating, searchResults,
                   userStatus, showStatus, pick, uiVars, storeVars, readVars,
                   catVars>>

\* createFolder, line 1040, with a name typed into the prompt; the prompt
\* takes time
createFolder(n) ==
    /\ Len(myFolders) < MaxFolders
    /\ now < SessionEnd
    /\ now' = now + 1
    /\ myFolders' = Append(myFolders,
                           [id |-> folderId("f_", now'), title |-> n,
                            problems |-> << >>])
    /\ UNCHANGED <<storage, allProblemsCache, systemFolders, isLoading,
                   started, refresh, consoleErrors, searchText, minRating,
                   maxRating, searchResults, userStatus, showStatus, pick,
                   uiVars, storeVars, readVars>>

\* deleteFolder, line 1041, confirmed
deleteFolder(fid) ==
    /\ LET others(f) == f.id # fid
       IN  myFolders' = SelectSeq(myFolders, others)
    /\ UNCHANGED <<searchText, minRating, maxRating, searchResults,
                   userStatus, showStatus, pick, uiVars, storeVars, readVars,
                   catVars>>

\* handleImport, lines 1075-1091; typing the text takes time
handleImport(lines) ==
    /\ Len(lines) >= 1
    /\ Len(myFolders) < MaxFolders
    /\ now < SessionEnd
    /\ now' = now + 1
    /\ myFolders' = Append(myFolders,
                           [id |-> folderId("fav_", now'), title |-> "T",
                            problems |-> importedProblems(Tail(lines),
                                                          allProblemsCache,
                                                          << >>)])
    /\ UNCHANGED <<storage, allProblemsCache, systemFolders, isLoading,
                   started, refresh, consoleErrors, searchText, minRating,
                   maxRating, searchResults, userStatus, showStatus, pick,
                   uiVars, storeVars, readVars>>

\* handleImportFile, lines 1102-1106, when the file has been read
handleImportFile(file) ==
    /\ IF file.kind = "array"
       THEN /\ myFolders' = file.folders
            /\ lastAlert' = "Data imported successfully!"
       ELSE /\ lastAlert' = "Invalid file format."
            /\ UNCHANGED myFolders
    /\ UNCHANGED <<store, txStore, txActive, batch, pos, preStore, mergedIds,
                   lastOp, syncPc, syncStatus, userHandle, searchText,
                   minRating, maxRating, searchResults, userStatus,
                   showStatus, pick, uiVars, readVars, catVars>>

\* the explorer after the start-up effect with nothing stored but the
\* catalog: the default folder, selected
InitFolders ==
    /\ allProblemsCache = FolderCatalog
    /\ storage = snapshotOf(FolderCatalog, SnapshotTime)
    /\ systemFolders = classify(FolderCatalog)
    /\ isLoading = FALSE
    /\ started = TRUE
    /\ now = SnapshotTime
    /\ refresh = [i \in Slots |-> IdleCall]
    /\ consoleErrors = FALSE
    /\ searchText = << >>
    /\ minRating = << >>
    /\ maxRating = << >>
    /\ myFolders = <<FavDefault>>
    /\ searchResults = [my |-> << >>, global |-> << >>]
    /\ userStatus = << >>
    /\ showStatus = FALSE
    /\ pick = NoPick
    /\ store = EmptyStore
    /\ txStore = EmptyStore
    /\ txActive = FALSE
    /\ batch = << >>
    /\ pos = 0
    /\ preStore = EmptyStore
    /\ mergedIds = {}
    /\ lastOp = "none"
    /\ syncPc = "idle"
    /\ syncStatus = ""
    /\ userHandle = "tourist"
    /\ lastAlert = ""
    /\ limit = 0
    /\ recent = << >>
    /\ readPc = "idle"
    /\ UiIdle
    /\ selectedFolderId = FavDefault.id

FolderIds == {myFolders[k].id : k \in 1..Len(myFolders)}

NextFolders ==
    \/ \E p \in PageProblems : checkUrl(p)
    \/ \E p \in MenuProblems : handleContextMenu(p)
    \/ \E k \in 1..MaxFolders : selectFolder(k)
    \/ addProblem
    \/ \E fid \in FolderIds : addProblemToFolder(fid)
    \/ \E fid \in FolderIds, p \in PageProblems : deleteProblem(fid, p.id)
    \/ \E n \in FolderTitles : createFolder(n)
    \/ \E fid \in FolderIds : deleteFolder(fid)
    \/ \E lines \in ImportTexts : handleImport(lines)
    \/ \E file \in ImportFiles : handleImportFile(file)

SpecFolders == InitFolders /\ [][NextFolders]_vars

\* ------------------------------------------------------------------ claims
Range(f) == {f[x] : x \in DOMAIN f}

Min(a, b) == IF a < b THEN a ELSE b

\* the step that commits a merge
MergeCommits == txActive /\ ~txActive' /\ lastOp' = "save"

\* the loop of the open saveSubmissions has run to its end
LoopDone == txActive /\ pos = Len(batch)

KeyedAt(j) == j \in 1..Len(batch) /\ isKeyed(batch[j])

\* C1: a merge whose records for an id supply no code leaves the populated
\* code of the stored record with that id as it was, after any sequence of
\* merges.
C1_StickyCodePreserved ==
    [][MergeCommits =>
         \A k \in DOMAIN store :
             ( /\ store[k].code # NoCode
               /\ \E j \in 1..Len(batch) : KeyedAt(j) /\ batch[j].id = store[k].id
               /\ \A j \in 1..Len(batch) :
                      KeyedAt(j) /\ batch[j].id = store[k].id => batch[j].code = NoCode )
             => k \in DOMAIN store' /\ store'[k].code = store[k].code]_vars

C1_Witness ==
    /\ LoopDone
    /\ \E k \in DOMAIN preStore, j \in 1..Len(batch) :
         /\ preStore[k].code # NoCode
         /\ KeyedAt(j) /\ batch[j].id = k /\ batch[j].code = NoCode
         /\ batch[j].verdict # preStore[k].verdict
         /\ k \in DOMAIN txStore
         /\ txStore[k].verdict = batch[j].verdict
         /\ txStore[k].code = preStore[k].code

C3_MergeIdempotent == LoopDone => saveLoop(txStore, batch) = txStore

C3_Witness ==
    /\ LoopDone
    /\ Len(batch) = 2
    /\ KeyedAt(1) /\ KeyedAt(2)
    /\ batch[1].id = batch[2].id
    /\ batch[1].verdict # batch[2].verdict
    /\ batch[1].id \in DOMAIN preStore
    /\ preStore[batch[1].id].code # NoCode
    /\ txStore # preStore
    /\ saveLoop(txStore, batch) = txStore

\* C4: while a merge is open the committed store is the one from before the
\* merge; the step that ends the merge leaves either that store (failure) or
\* the store with the whole batch applied, and a commit leaves the latter.
C4_MergeAtomic ==
    [][ /\ txActive => store = preStore
        /\ (txActive /\ ~txActive') => store' \in {preStore, saveLoop(preStore, batch)}
        /\ MergeCommits => store' = saveLoop(preStore, batch) ]_vars

C4_Witness ==
    /\ txActive
    /\ 0 < pos /\ pos < Len(batch)
    /\ txStore # preStore
    /\ saveLoop(preStore, batch) # txStore
    /\ store = preStore

\* C5 as stated: records without a problem reference change nothing and
\* every record with a problem reference is upserted.
C5_EveryRecordWithProblemUpserted ==
    [][MergeCommits =>
         /\ \A k \in DOMAIN store :
                (\A j \in 1..Len(batch) : batch[j].problem.present => batch[j].id # k)
                => k \in DOMAIN store' /\ store'[k] = store[k]
         /\ \A j \in 1..Len(batch) :
                batch[j].problem.present => batch[j].id \in IdsOf(store')]_vars

\* C5 amended: records without a problem reference or with a falsy id change
\* nothing, and every record with a problem reference and a truthy id is
\* upserted, wherever it stands in the batch.
C5_KeyedRecordsUpserted ==
    [][MergeCommits =>
         /\ DOMAIN store' = DOMAIN store \cup ValidIds(batch)
         /\ \A k \in DOMAIN store \ ValidIds(batch) : store'[k] = store[k]
         /\ \A k \in ValidIds(batch) :
                \E j \in 1..Len(batch) :
                    /\ KeyedAt(j) /\ batch[j].id = k
                    /\ store'[k].id = k
                    /\ store'[k].name = batch[j].problem.name
                    /\ store'[k].verdict = batch[j].verdict
                    /\ store'[k].creationTimeSeconds = batch[j].creationTimeSeconds]_vars

C5_Witness ==
    /\ LoopDone
    /\ Len(batch) = 2
    /\ ~batch[1].problem.present
    /\ KeyedAt(2)
    /\ batch[2].id \notin DOMAIN preStore
    /\ batch[2].id \in DOMAIN txStore
    /\ DOMAIN txStore = DOMAIN preStore \cup {batch[2].id}

\* C6: the store holds one record per id, the ids are those upserted by the
\* merges since the last clear, getSubmissionCount is their number, and it
\* is 0 right after clearDB.
C6_OneRecordPerMergedId ==
    /\ \A k1, k2 \in DOMAIN store : store[k1].id = store[k2].id => k1 = k2
    /\ IdsOf(store) = mergedIds
    /\ getSubmissionCount = Cardinality(mergedIds)
    /\ lastOp = "clear" => getSubmissionCount = 0

C6_Witness ==
    /\ lastOp = "save"
    /\ mergedIds = Ids
    /\ getSubmissionCount = Cardinality(Ids)
    /\ \E k \in DOMAIN store : store[k].code # NoCode

\* C7: getRecentSubmissions(limit) returns min(limit, count) records of the
\* store, no record twice, in non-increasing creationTimeSeconds order, and
\* no record left out is newer than a record returned.
C7_RecentOrdering ==
    readPc = "done" =>
        /\ Len(recent) = Min(limit, getSubmissionCount)
        /\ \A i \in 1..Len(recent) : recent[i] \in Range(store)
        /\ \A i, j \in 1..Len(recent) : recent[i] = recent[j] => i = j
        /\ \A i \in 1..Len(recent) - 1 :
               recent[i].creationTimeSeconds >= recent[i + 1].creationTimeSeconds
        /\ \A r \in Range(store) \ Range(recent) :
               \A i \in 1..Len(recent) :
                   recent[i].creationTimeSeconds >= r.creationTimeSeconds

\* the example of the specification: creation times [100, 300, 200], limit 2
C7_Witness ==
    /\ readPc = "done"
    /\ limit = 2
    /\ DOMAIN store = {1, 2, 3}
    /\ store[1].creationTimeSeconds = 100
    /\ store[2].creationTimeSeconds = 300
    /\ store[3].creationTimeSeconds = 200
    /\ recent = <<store[2], store[3]>>

\* a call of fetchCFProblems that ended in a failure
RefreshFailed(i) ==
    refresh[i].pc = "done" /\ refresh[i].outcome \in {"network", "status"}

\* the step in which call i of fetchCFProblems ends in a failure
RefreshFails(i) ==
    /\ refresh[i].pc = "fetch"
    /\ refresh'[i].pc = "done"
    /\ refresh'[i].outcome \in {"network", "status"}

\* C8: the step in which a call of fetchCFProblems ends in a network/parse
\* error or in a non-OK status leaves the catalog in memory, the persisted
\* snapshot with its fetch time and the system folders as they were, and
\* puts no call of fetchCFProblems in flight.
C8_FailedRefreshChangesNothing ==
    [][\A i \in Slots :
          RefreshFails(i) =>
              /\ allProblemsCache' = allProblemsCache
              /\ storage' = storage
              /\ systemFolders' = systemFolders
              /\ \A j \in Slots :
                     refresh'[j].pc = "fetch" => refresh[j].pc = "fetch"]_vars

\* both kinds of failure have ended a refresh while a catalog was loaded
C8_Witness ==
    /\ refresh[1].pc = "done" /\ refresh[1].outcome = "status"
    /\ refresh[2].pc = "done" /\ refresh[2].outcome = "network"
    /\ allProblemsCache # << >>
    /\ storage.hasCache
    /\ allProblemsCache = storage.cache
    /\ systemFolders = storage.sys

\* C9: once the start-up effect has run and no refresh is in flight, a
\* persisted snapshot is the catalog that search and random pick read
\* (allProblemsCache); after a start-up whose refresh failed the catalog is
\* the persisted snapshot, not the empty one.
C9_PriorSnapshotAuthoritative ==
    (/\ started
     /\ storage.hasCache
     /\ \A i \in Slots : refresh[i].pc # "fetch")
        => allProblemsCache = storage.cache

\* C10: a refresh that failed has handed its caller something other than
\* the `undefined` of a refresh that succeeded, two refreshes that failed
\* in different ways have handed back different things, and a sync that
\* has ended shows one terminal status, "Network Error" or "Error: " with
\* the comment when it failed.
C10_FailuresSurfaced ==
    /\ \A i \in Slots : RefreshFailed(i) => refresh[i].returned # "undefined"
    /\ \A i, j \in Slots :
           (RefreshFailed(i) /\ RefreshFailed(j)
            /\ refresh[i].outcome # refresh[j].outcome)
               => refresh[i].returned # refresh[j].returned
    /\ syncPc = "idle" =>
           syncStatus \in {"", "Done!", "Network Error"}
                          \cup {"Error: " \o c : c \in Comments}

\* the step in which call i of fetchCFProblems ends with the catalog replaced
RefreshSucceeds(i) ==
    /\ refresh[i].pc = "fetch"
    /\ refresh'[i].pc = "done"
    /\ refresh'[i].outcome = "ok"

\* C11: after the step in which a refresh succeeds, the catalog in memory
\* and the persisted one list the problems of the response one for one,
\* the id of each is the decimal contestId followed by the index, and no
\* two problems of the catalog share an id.
C11_CatalogIdentity ==
    [][\A i \in Slots :
          RefreshSucceeds(i) =>
              /\ \E l \in ProblemLists :
                    /\ Len(allProblemsCache') = Len(l)
                    /\ \A k \in 1..Len(l) :
                          /\ allProblemsCache'[k].id
                                = Digits(l[k].contestId) \o l[k].index
                          /\ allProblemsCache'[k].contestId = l[k].contestId
              /\ \A a, b \in DOMAIN allProblemsCache' :
                    a # b => allProblemsCache'[a].id # allProblemsCache'[b].id
              /\ storage'.cache = allProblemsCache']_vars

\* a refresh has succeeded and the catalog holds "4A" next to "44A"
C11_Witness ==
    /\ \E i \in Slots : refresh[i].pc = "done" /\ refresh[i].outcome = "ok"
    /\ \E a, b \in DOMAIN allProblemsCache :
          /\ allProblemsCache[a].id = <<"4", "A">>
          /\ allProblemsCache[b].id = <<"4", "4", "A">>

\* folder f is a right answer for tag over catalog: the id, the cap, the tag
\* on every member, the order, and nothing better left out
FolderClassifies(f, tag, catalog) ==
    /\ f.id = "sys_" \o tag
    /\ Len(f.problems) <= 20
    /\ \A j \in DOMAIN f.problems :
          /\ tag \in f.problems[j].tags
          /\ f.problems[j] \in Range(catalog)
    /\ \A j \in 1..(Len(f.problems) - 1) :
          f.problems[j].contestId >= f.problems[j + 1].contestId
    /\ \A q \in Range(catalog) :
          (tag \in q.tags /\ q \notin Range(f.problems))
              => \A j \in DOMAIN f.problems :
                    q.contestId <= f.problems[j].contestId

\* C12: after the step in which a refresh succeeds, the system folders are
\* one folder per tag of CF_TAGS in the order of CF_TAGS, with id "sys_"+tag;
\* each folder holds at most 20 problems of the new catalog, all carrying
\* the tag, in descending contestId order, and no tagged problem left out
\* has a greater contestId than one that is in the folder.
C12_TagClassification ==
    [][\A i \in Slots :
          RefreshSucceeds(i) =>
              /\ Len(systemFolders') = Len(CF_TAGS)
              /\ \A k \in 1..Len(CF_TAGS) :
                    FolderClassifies(systemFolders'[k], CF_TAGS[k],
                                     allProblemsCache')
              /\ storage'.sys = systemFolders']_vars

\* a refresh has succeeded, a folder is full and a tagged problem is left out
C12_Witness ==
    /\ \E i \in Slots : refresh[i].pc = "done" /\ refresh[i].outcome = "ok"
    /\ Len(systemFolders) = Len(CF_TAGS)
    /\ \E k \in 1..Len(CF_TAGS) :
          /\ Len(systemFolders[k].problems) = 20
          /\ \E q \in Range(allProblemsCache) :
                /\ CF_TAGS[k] \in q.tags
                /\ q \notin Range(systemFolders[k].problems)

\* the step of the start-up effect
StartUp == ~started /\ started'

\* the step puts a call of fetchCFProblems in flight
FetchIssued ==
    \E i \in Slots : refresh[i].pc # "fetch" /\ refresh'[i].pc = "fetch"

\* the step loads the persisted snapshot and issues no fetch
SnapshotLoaded == allProblemsCache' = storage.cache /\ ~FetchIssued

\* the step issues a fetch and leaves the catalog in memory as it was
RefreshTriggered == FetchIssued /\ allProblemsCache' = allProblemsCache

\* age of the persisted snapshot (a snapshot without cf_cache_time has time 0)
SnapshotAge == now - storage.cacheTime

\* C13 as stated: at start-up a persisted snapshot whose age is at most 24
\* hours is loaded without a refresh; a refresh is triggered only when the
\* age is greater than 24 hours or no snapshot is persisted.
C13_StaleWhenOlderThanTTL ==
    [][StartUp =>
          IF storage.hasCache /\ SnapshotAge <= 24 * 60 * 60 * 1000
          THEN SnapshotLoaded
          ELSE RefreshTriggered]_vars

\* C13 as the code has it: at start-up a persisted snapshot whose age is
\* less than 24 hours is loaded without a refresh; a refresh is triggered
\* when the age is 24 hours or more, or no snapshot is persisted.
C13_StaleFromTTL ==
    [][StartUp =>
          IF storage.hasCache /\ SnapshotAge < 24 * 60 * 60 * 1000
          THEN SnapshotLoaded
          ELSE RefreshTriggered]_vars

\* the start-up has met a snapshot of exactly 24 hours and has issued a fetch
C13_Witness ==
    /\ started
    /\ storage.hasCache
    /\ SnapshotAge = 24 * 60 * 60 * 1000
    /\ allProblemsCache = << >>
    /\ refresh[1].pc = "fetch"
    /\ \A i \in Slots : i # 1 => refresh[i].pc = "idle"

\* ---- search and random pick
\* a search is active (line 1213)
SearchActive == searchText # << >> \/ minRating # << >> \/ maxRating # << >>

\* the bounds the boxes resolve to
MinBound == IF minRating = << >> THEN 0 ELSE parseInt(minRating)

MaxBound == IF maxRating = << >> THEN 10000 ELSE parseInt(maxRating)

\* the text condition on p for the text of the search box
TextHolds(p) ==
    \/ searchText = << >>
    \/ includes(toLowerCase(p.id), toLowerCase(searchText))
    \/ includes(toLowerCase(p.name), toLowerCase(searchText))
    \/ \E t \in p.tags :
          includes(toLowerCase(TagText[t]), toLowerCase(searchText))

\* the rating condition as C14 words it
RatingHolds(p) ==
    IF p.rating # 0
    THEN MinBound <= p.rating /\ p.rating <= MaxBound
    ELSE MinBound = 0

MyCandidates == Range(folderProblems(myFolders))

\* C14: while a search is active, every problem of `my` and of `global`
\* meets the rating condition (rating present: minRating <= rating <=
\* maxRating; rating absent: minRating resolves to 0), and every candidate
\* that meets the text condition and the rating condition is listed (in
\* `global` as long as the cap is not reached); so with minRating > 0 no
\* ratingless problem is in either list.
C14_RatingCondition ==
    SearchActive =>
        /\ \A p \in Range(searchResults.my) \cup Range(searchResults.global) :
              RatingHolds(p)
        /\ \A p \in MyCandidates :
              (TextHolds(p) /\ RatingHolds(p))
                  => \E k \in DOMAIN searchResults.my :
                        searchResults.my[k].id = p.id
        /\ Len(searchResults.global) < 50 =>
              \A p \in Range(allProblemsCache) :
                  (TextHolds(p) /\ RatingHolds(p))
                      => p \in Range(searchResults.global)
        /\ MinBound > 0 =>
              \A p \in Range(searchResults.my) \cup Range(searchResults.global) :
                  p.rating # 0

\* bounds [1500, 1900]: a rated problem is listed, a ratingless problem
\* that meets the text condition is in neither list
C14_Witness ==
    /\ MinBound = 1500
    /\ MaxBound = 1900
    /\ searchResults.global # << >>
    /\ searchResults.my # << >>
    /\ \E p \in Range(allProblemsCache) \cap MyCandidates :
          /\ p.rating = 0
          /\ TextHolds(p)
          /\ p \notin Range(searchResults.global)
          /\ p \notin Range(searchResults.my)

\* the score as C15 words it
ScoreOf(p) ==
    IF searchText = << >> THEN 3
    ELSE IF toLowerCase(p.id) = toLowerCase(searchText) THEN 0
    ELSE IF startsWith(toLowerCase(p.id), toLowerCase(searchText)) THEN 1
    ELSE IF startsWith(toLowerCase(p.name), toLowerCase(searchText)) THEN 2
    ELSE 3

\* the characters in code order
CodeOrder == <<" ">> \o DigitChars \o UpperLetters \o LowerLetters

codeOf(c) == CHOOSE k \in 1..Len(CodeOrder) : CodeOrder[k] = c

\* a <= b in the lexicographic order by character code
RECURSIVE LexLeq(_, _)
LexLeq(a, b) ==
    IF a = << >> THEN TRUE
    ELSE IF b = << >> THEN FALSE
    ELSE IF Head(a) # Head(b) THEN codeOf(Head(a)) < codeOf(Head(b))
    ELSE LexLeq(Tail(a), Tail(b))

\* a may stand right before b in a ranked list
RankedBefore(a, b) ==
    \/ ScoreOf(a) < ScoreOf(b)
    \/ ScoreOf(a) = ScoreOf(b) /\ Len(a.id) < Len(b.id)
    \/ ScoreOf(a) = ScoreOf(b) /\ Len(a.id) = Len(b.id) /\ LexLeq(a.id, b.id)

Ranked(list) ==
    \A k \in 1..(Len(list) - 1) : RankedBefore(list[k], list[k + 1])

CatalogMatches ==
    {p \in Range(allProblemsCache) : TextHolds(p) /\ RatingHolds(p)}

\* a ranks strictly better than b
StrictlyBetter(a, b) == RankedBefore(a, b) /\ ~RankedBefore(b, a)

\* C16: `global` has at most 50 entries, each a catalog problem that
\* satisfies isMatch; no matching catalog problem that is left out ranks
\* strictly better than one that is in it.
C16_GlobalCapAfterRanking ==
    /\ Len(searchResults.global) <= 50
    /\ Range(searchResults.global) \subseteq CatalogMatches
    /\ SearchActive =>
          \A p \in CatalogMatches \ Range(searchResults.global) :
              /\ Len(searchResults.global) = 50
              /\ \A k \in DOMAIN searchResults.global :
                    ~StrictlyBetter(p, searchResults.global[k])

\* more than 50 catalog problems match and `global` holds 50 of them
C16_Witness ==
    /\ SearchActive
    /\ Cardinality(CatalogMatches) > 50
    /\ Len(searchResults.global) = 50
    /\ searchText # << >>

\* the query of the example: "4a" in the search box, both rating boxes empty
ExampleQuery ==
    /\ searchText = <<"4", "a">>
    /\ minRating = << >>
    /\ maxRating = << >>

Id4A == <<"4", "A">>

Id44A == <<"4", "4", "A">>

Id1504A == <<"1", "5", "0", "4", "A">>

\* p matches "4a" only because its name starts with it
NameStartsOnly(p) ==
    /\ startsWith(toLowerCase(p.name), <<"4", "a">>)
    /\ ~includes(toLowerCase(p.id), <<"4", "a">>)
    /\ \A t \in p.tags : ~includes(toLowerCase(TagText[t]), <<"4", "a">>)

\* every entry of list that satisfies First comes before every one that
\* satisfies Then
AllBefore(list, First(_), Then(_)) ==
    \A i, j \in DOMAIN list :
        First(list[i]) /\ Then(list[j]) => i < j

Is4A(p) == p.id = Id4A

Is44A(p) == p.id = Id44A

Is1504A(p) == p.id = Id1504A

\* C17 as stated: for the query "4a" with no rating bounds "4A" comes
\* before "44A", and "44A" before every problem that matches only because
\* its name starts with "4a".
C17_ExampleOrdering ==
    ExampleQuery =>
        \A list \in {searchResults.my, searchResults.global} :
            /\ AllBefore(list, Is4A, Is44A)
            /\ AllBefore(list, Is44A, NameStartsOnly)

\* C17 as the code has it: "44a" does not start with "4a", so "44A" is no
\* id prefix match. For the query "4a" with no rating bounds "4A" comes
\* before every problem whose name starts with "4a", and each of those
\* before "44A".
C17_ExampleOrderingByPrefix ==
    ExampleQuery =>
        \A list \in {searchResults.my, searchResults.global} :
            /\ AllBefore(list, Is4A, NameStartsOnly)
            /\ AllBefore(list, NameStartsOnly, Is44A)
            /\ AllBefore(list, Is4A, Is44A)

\* the example query with "4A", "44A" and a problem matching by the start
\* of its name all among the results
C17_Witness ==
    /\ ExampleQuery
    /\ \E i, j, k \in DOMAIN searchResults.global :
          /\ Is4A(searchResults.global[i])
          /\ Is44A(searchResults.global[j])
          /\ NameStartsOnly(searchResults.global[k])

FilteredPool ==
    {p \in Range(allProblemsCache) :
        /\ TextHolds(p)
        /\ RatingHolds(p)
        /\ (~showStatus \/ statusOf(userStatus, p.id) # "OK")}

CatalogEmptyFailure ==
    [outcome |-> "alert", alert |-> "Index empty. Please download first.",
     id |-> << >>, navigated |-> FALSE]

FilterEmptyFailure ==
    [outcome |-> "alert", alert |-> "No unsolved problems found.",
     id |-> << >>, navigated |-> FALSE]

\* C19: handleRandomPick reports the catalog-empty failure iff the catalog
\* is empty, the distinct filter-empty failure iff the catalog is not empty
\* and the filtered pool is; in every other case it reports no failure and
\* selects a member of the filtered pool.
C19_SamplerOutcomes ==
    [][pick' # pick =>
          /\ CatalogEmptyFailure # FilterEmptyFailure
          /\ (pick' = CatalogEmptyFailure) <=> (allProblemsCache = << >>)
          /\ (pick' = FilterEmptyFailure) <=>
                (allProblemsCache # << >> /\ FilteredPool = {})
          /\ (allProblemsCache # << >> /\ FilteredPool # {}) =>
                /\ pick'.outcome = "picked"
                /\ pick'.alert = ""
                /\ \E p \in FilteredPool : p.id = pick'.id]_vars

\* a pick among several candidates under a text filter, not the first one
C19_Witness ==
    /\ pick.outcome = "picked"
    /\ searchText # << >>
    /\ Len(currentPool) >= 2
    /\ pick.id = currentPool[2].id

\* the filter-empty failure over a catalog that is not empty
C19_FilterEmptyReached ==
    pick = FilterEmptyFailure /\ allProblemsCache # << >>

\* C20: the problem handleRandomPick chooses is never one whose recorded
\* status is "OK", whatever the catalog, the filter and the status map.
C20_PickUnsolvedOnly ==
    pick.outcome = "picked" => statusOf(userStatus, pick.id) # "OK"

\* ---- export
\* the step is a handleExportHistory that writes a file
ExportWrites == exported' # exported /\ exported'.outcome = "exported"

\* the records the export is to hold for the checkbox as it is
Exportable ==
    {store[id] : id \in {k \in DOMAIN store :
                            exportOnlyAC => store[k].verdict = VerdictOK}}

\* C21: handleExportHistory outputs exactly the store's records (those of
\* verdict OK when the checkbox is set, all otherwise), one row or element
\* per record, newest first by creationTimeSeconds, and leaves the store as
\* it is.
C21_ExportContentAndOrder ==
    [][ExportWrites =>
          LET data == exported'.data
              lines == exported'.lines
          IN  /\ store' = store
              /\ Range(data) = Exportable
              /\ Len(data) = Cardinality(Exportable)
              /\ \A k \in 1..(Len(data) - 1) :
                    data[k].creationTimeSeconds
                        >= data[k + 1].creationTimeSeconds
              /\ exported'.format = "csv" =>
                    /\ Len(lines) = Len(data) + 1
                    /\ \A k \in 1..Len(data) :
                          startsWith(lines[k + 1],
                                     Digits(data[k].id) \o <<",">>)]_vars

\* a CSV export of two records where the newer one has the smaller key
C21_Witness ==
    /\ exported.outcome = "exported"
    /\ exported.format = "csv"
    /\ Len(exported.data) = 2
    /\ exported.data[1].id = 1
    /\ exported.data[1].creationTimeSeconds
           > exported.data[2].creationTimeSeconds

\* an export of the accepted records that leaves a record out
C21_FilteredExportReached ==
    /\ exported.outcome = "exported"
    /\ exportOnlyAC
    /\ Len(exported.data) = 1
    /\ Cardinality(DOMAIN store) = 2

\* double quotes of v before place k
QuotesBefore(v, k) == Cardinality({j \in 1..(k - 1) : v[j] = Quote})

\* v between double quotes, with every double quote of v written twice:
\* character k of v stands QuotesBefore(v, k) places further on, and the
\* places in between hold the second quote of a pair
EscapedCell(v) ==
    LET n == Len(v) + QuotesBefore(v, Len(v) + 1)
        from(i) == {k \in 1..Len(v) : k + QuotesBefore(v, k) = i}
    IN  <<Quote>>
            \o [i \in 1..n |->
                   IF from(i) # {} THEN v[CHOOSE k \in from(i) : TRUE]
                   ELSE Quote]
            \o <<Quote>>

\* the CSV line of a record with its four text fields escaped
EscapedLine(row) ==
    join(<<Digits(row.id), Digits(row.contestId), row.index,
           EscapedCell(row.name),
           IF row.rating = 0 THEN << >> ELSE Digits(row.rating),
           EscapedCell(formatVerdictDetailed(row.verdict,
                                             row.passedTestCount)),
           EscapedCell(row.programmingLanguage),
           Digits(row.timeConsumedMillis),
           Digits(formatMemoryKB(row.memoryConsumedBytes)),
           EscapedCell(formatFullDate(row.creationTimeSeconds))>>, <<",">>)

\* C22: in every CSV data row the fields Problem Name, Verdict, Language and
\* Date Time stand between double quotes with every double quote of their
\* value doubled.
C22_CsvEscaping ==
    exported.outcome = "exported" /\ exported.format = "csv" =>
        \A k \in 1..Len(exported.data) :
            exported.lines[k + 1] = EscapedLine(exported.data[k])

\* the same for the rows of records whose language holds no double quote
C22_EscapingWithoutQuotedLanguage ==
    exported.outcome = "exported" /\ exported.format = "csv" =>
        \A k \in 1..Len(exported.data) :
            (\A j \in 1..Len(exported.data[k].programmingLanguage) :
                 exported.data[k].programmingLanguage[j] # Quote)
                => exported.lines[k + 1] = EscapedLine(exported.data[k])

\* a CSV row of a record whose name holds double quotes and whose language
\* holds none
C22_QuotedNameReached ==
    /\ exported.outcome = "exported"
    /\ exported.format = "csv"
    /\ \E k \in 1..Len(exported.data) :
          /\ \E j \in 1..Len(exported.data[k].name) :
                exported.data[k].name[j] = Quote
          /\ \A j \in 1..Len(exported.data[k].programmingLanguage) :
                exported.data[k].programmingLanguage[j] # Quote

\* what the CSV is to show for each verdict of ExportVerdicts, place by
\* place, before the number of the test
VerdictTexts ==
    <<<<"A", "c", "c", "e", "p", "t", "e", "d">>,
      <<"C", "o", "m", "p", "i", "l", "a", "t", "i", "o", "n", " ", "E", "r",
       "r", "o", "r">>,
      <<"W", "r", "o", "n", "g", " ", "A", "n", "s", "w", "e", "r">>,
      <<"T", "i", "m", "e", " ", "L", "i", "m", "i", "t", " ", "E", "x", "c",
       "e", "e", "d", "e", "d">>,
      <<"M", "e", "m", "o", "r", "y", " ", "L", "i", "m", "i", "t", " ", "E",
       "x", "c", "e", "e", "d", "e", "d">>,
      <<"R", "u", "n", "t", "i", "m", "e", " ", "E", "r", "r", "o", "r">>,
      <<"F", "a", "i", "l", "e", "d">>,
      <<"P", "a", "r", "t", "i", "a", "l">>,
      <<"P", "r", "e", "s", "e", "n", "t", "a", "t", "i", "o", "n", " ", "E",
       "r", "r", "o", "r">>,
      <<"I", "d", "l", "e", "n", "e", "s", "s", " ", "L", "i", "m", "i", "t",
       " ", "E", "x", "c", "e", "e", "d", "e", "d">>,
      <<"S", "e", "c", "u", "r", "i", "t", "y", " ", "V", "i", "o", "l", "a",
       "t", "e", "d">>,
      <<"C", "r", "a", "s", "h", "e", "d">>,
      <<"I", "n", "p", "u", "t", " ", "P", "r", "e", "p", "a", "r", "a", "t",
       "i", "o", "n", " ", "C", "r", "a", "s", "h", "e", "d">>,
      <<"C", "h", "a", "l", "l", "e", "n", "g", "e", "d">>,
      <<"S", "k", "i", "p", "p", "e", "d">>,
      <<"T", "e", "s", "t", "i", "n", "g">>,
      <<"R", "e", "j", "e", "c", "t", "e", "d">>,
      <<>>>>

\* the verdicts shown with the number of the failed test: WRONG_ANSWER,
\* TIME_LIMIT_EXCEEDED, MEMORY_LIMIT_EXCEEDED, RUNTIME_ERROR
TestVerdictPlaces == 3..6

VerdictPlace(v) == CHOOSE i \in 1..Len(ExportVerdicts) : ExportVerdicts[i] = v

\* the verdict text for verdict v and n passed tests
ExpectedVerdictText(v, n) ==
    LET i == VerdictPlace(v)
    IN  VerdictTexts[i]
            \o (IF i \in TestVerdictPlaces
                THEN OnTestText \o Digits(n + 1)
                ELSE << >>)

C24_NoDuplicateInFolder ==
    \A f \in 1..Len(myFolders) :
        \A i, j \in 1..Len(myFolders[f].problems) :
            myFolders[f].problems[i].id = myFolders[f].problems[j].id
                => i = j

\* the same for the steps that add a problem to a folder that exists:
\* addProblem and addProblemToFolder add no problem the folder has
C24_InsertChecksDuplicates ==
    [][\A f \in 1..Len(myFolders) :
           (/\ Len(myFolders') = Len(myFolders)
            /\ myFolders'[f].id = myFolders[f].id
            /\ Len(myFolders'[f].problems) = Len(myFolders[f].problems) + 1)
               => ~hasProblem(myFolders[f],
                              myFolders'[f].problems[
                                  Len(myFolders'[f].problems)].id)]_vars

\* a folder that an insert has filled with two problems
C24_InsertReached ==
    \E f \in 1..Len(myFolders) :
        /\ myFolders[f].id = FavDefault.id
        /\ Len(myFolders[f].problems) = 2

\* C30: selectedFolderId is empty or the id of a custom folder that exists,
\* so that addProblem finds a folder for the problem of the page whenever
\* there is a custom folder.
C30_SelectedFolderValid ==
    selectedFolderId = "" \/ selectedFolderId \in FolderIds

\* a problem is on the page and a custom folder without it exists, but the
\* selection names no folder: addProblem returns at line 1021
C30_AddProblemIgnoredReached ==
    /\ activeProblem # NoActive
    /\ myFolders # << >>
    /\ \A f \in 1..Len(myFolders) : ~hasProblem(myFolders[f], activeProblem.id)
    /\ selectedFolderId # ""
    /\ findIndex(myFolders, selectedFolderId) = 0
    /\ ~ENABLED addProblem

\* ---- concurrent loaders
\* the catalog in memory, the persisted snapshot and the system folders all
\* come from the one response with the problems l
DerivedFrom(l) ==
    /\ allProblemsCache = normalize(l)
    /\ storage.hasCache /\ storage.cache = allProblemsCache
    /\ systemFolders = classify(allProblemsCache)
    /\ storage.hasSys /\ storage.sys = systemFolders

OneSnapshot == \E l \in ProblemLists : DerivedFrom(l)

NoneInFlight == \A i \in Slots : refresh[i].pc # "fetch"

\* C25: a fetchCFProblems in flight neither keeps a second one from
\* starting nor is cancelled by it; the end of a call that got an OK
\* response writes catalog, snapshot and system folders from that response
\* over whatever was there, the end of a failed call writes nothing; so once
\* all calls have ended and one of them succeeded, the three derive from
\* one response, that of the call applied last.
C25_LastWriteWins ==
    /\ [](\A i \in Slots :
              refresh[i].pc = "fetch" =>
                  /\ ENABLED (\E resp \in Responses :
                                  fetchCFProblemsEnd(i, resp))
                  /\ (\E j \in Slots : refresh[j].pc # "fetch")
                         => ENABLED refreshClicked)
    /\ [][\A i \in Slots :
              /\ RefreshSucceeds(i) =>
                    /\ \E l \in ProblemLists :
                          /\ allProblemsCache' = normalize(l)
                          /\ storage'.hasCache
                          /\ storage'.cache = allProblemsCache'
                          /\ systemFolders' = classify(allProblemsCache')
                          /\ storage'.hasSys
                          /\ storage'.sys = systemFolders'
                    /\ storage'.cacheTime = now
              /\ RefreshFails(i) =>
                    UNCHANGED <<allProblemsCache, storage, systemFolders>>]_vars
    /\ []((NoneInFlight
           /\ \E i \in Slots : refresh[i].pc = "done"
                               /\ refresh[i].outcome = "ok")
              => OneSnapshot)

\* two calls that overlapped have both ended with an OK response, and the
\* state is that of the second list although the first slot ended
C25_Witness ==
    /\ refresh[1].pc = "done" /\ refresh[1].outcome = "ok"
    /\ refresh[2].pc = "done" /\ refresh[2].outcome = "ok"
    /\ DerivedFrom(<<RawSplit, RawWatermelon>>)

\* ------------------------------------------------- the displayed count
\* handleSetView('data'), line 790
handleSetViewData ==
    /\ countCalls' = refreshDbCountCalled(countCalls, "view")
    /\ UNCHANGED <<storeVars, readVars, catVars, searchVars, dbCount,
                   exportFormat, exportOnlyAC, exported, folderVars, loaders,
                   statusCall>>

\* refreshDbCount, lines 795-796: db.count in a readonly transaction, which
\* waits for the readwrite transaction that is open, and setDbCount in the
\* continuation of its success event
refreshDbCountCount(k) ==
    /\ k \in 1..Len(countCalls)
    /\ countCalls[k] = "count"
    /\ ~txActive
    /\ dbCount' = getSubmissionCount
    /\ countCalls' = withCall(withoutCall(countCalls, k), "preview")
    /\ UNCHANGED <<storeVars, readVars, catVars, searchVars, exportFormat,
                   exportOnlyAC, exported, folderVars, loaders, statusCall>>

\* refreshDbCount, lines 797-798: the preview of the newest records
refreshDbCountPreview(k) ==
    /\ k \in 1..Len(countCalls)
    /\ countCalls[k] = "preview"
    /\ ~txActive
    /\ recent' = getRecentSubmissions(store, PreviewLimit)
    /\ countCalls' = withoutCall(countCalls, k)
    /\ UNCHANGED <<storeVars, limit, readPc, catVars, searchVars, dbCount,
                   exportFormat, exportOnlyAC, exported, folderVars, loaders,
                   statusCall>>

\* batches of the syncs of SpecCount: up to two valid records without code
CountBatches ==
    {b \in Batches : \A k \in DOMAIN b : b[k] \in ValidSubs
                                         /\ b[k].code = NoCode
                                         /\ b[k].verdict = "OK"}

\* the component is mounted on a store that an earlier session left empty or
\* filled; the refreshDbCount of line 1156 is in flight and the user exports
\* as JSON
InitCount ==
    /\ store \in {EmptyStore,
                  storePut(EmptyStore,
                           [id |-> 1, name |-> "A", verdict |-> "OK",
                            creationTimeSeconds |-> 100, code |-> NoCode])}
    /\ txStore = store
    /\ preStore = store
    /\ txActive = FALSE
    /\ batch = << >>
    /\ pos = 0
    /\ mergedIds = DOMAIN store
    /\ lastOp = "none"
    /\ syncPc = "idle"
    /\ syncStatus = ""
    /\ userHandle = "tourist"
    /\ lastAlert = ""
    /\ limit = 0
    /\ recent = << >>
    /\ readPc = "idle"
    /\ CatalogUnused
    /\ SearchUnused
    /\ dbCount = 0
    /\ countCalls = refreshDbCountCalled(<< >>, "mount")
    /\ exportFormat = "json"
    /\ exportOnlyAC = FALSE
    /\ exported = NoExport
    /\ selectedFolderId = ""
    /\ activeProblem = NoActive
    /\ contextMenu = NoActive
    /\ loaders = NoLoaders
    /\ statusCall = IdleStatusCall

NextCount ==
    \/ handleSyncData
    \/ syncNetworkError
    \/ \E subs \in CountBatches : syncSaving(subs)
    \/ saveSubmissionsStep
    \/ saveSubmissionsDone
    \/ saveSubmissionsAbort
    \/ handleClearDb
    \/ handleSetViewData
    \/ \E k \in 1..Len(CallStages) : refreshDbCountCount(k)
    \/ \E k \in 1..Len(CallStages) : refreshDbCountPreview(k)
    \/ handleExportHistory

SpecCount == InitCount /\ [][NextCount]_vars

\* --------------------------------------------------------- fetchUserStatus
\* submissions in one answer of user.status, and calls in flight together
MaxStatusSubs == 3
MaxStatusCalls == 2

\* sub.problem with its contestId and index, or sub.problem absent
StatusProblems ==
    {[present |-> TRUE, contestId |-> 4, index |-> <<"A">>],
     [present |-> TRUE, contestId |-> 1, index |-> <<"B">>]}

StatusSubs ==
    [problem : StatusProblems, verdict : {"OK", "WRONG_ANSWER"}]
    \cup {[problem |-> [present |-> FALSE, contestId |-> 0, index |-> << >>],
           verdict |-> "OK"]}

\* fetch or res.json() throws; a status that is not OK with its comment;
\* status OK with data.result
StatusResponses ==
    {NoAnswer,
     [kind |-> "json", status |-> "FAILED", comment |-> "handle: not found",
      result |-> << >>]}
    \cup {[kind |-> "json", status |-> "OK", comment |-> "", result |-> r] :
          r \in SeqsUpTo(StatusSubs, MaxStatusSubs)}

\* mutant: the verdict of the last submission of a problem decides
statusStep_lastWins(newStatus, sub) ==
    LET pid == problemId(sub.problem.contestId, sub.problem.index)
        v == IF sub.verdict = "OK" THEN "OK" ELSE "WRONG"
    IN  [x \in (DOMAIN newStatus) \cup {pid} |->
            IF x = pid THEN v ELSE newStatus[x]]

\* the callback of forEach, lines 815-817
statusStep(newStatus, sub) ==
    LET pid == problemId(sub.problem.contestId, sub.problem.index)
    IN  IF sub.verdict = "OK"
        THEN [x \in (DOMAIN newStatus) \cup {pid} |->
                 IF x = pid THEN "OK" ELSE newStatus[x]]
        ELSE IF pid \notin DOMAIN newStatus
             THEN [x \in (DOMAIN newStatus) \cup {pid} |->
                      IF x = pid THEN "WRONG" ELSE newStatus[x]]
             ELSE newStatus

\* data.result.forEach, lines 814-818, from the empty map of line 813
RECURSIVE statusLoop(_, _)
statusLoop(newStatus, result) ==
    IF result = << >>
    THEN newStatus
    ELSE statusLoop(statusStep(newStatus, Head(result)), Tail(result))

\* reading sub.problem.contestId of a submission without problem throws
\* inside the try block
statusThrows(resp) ==
    \/ resp.kind = "network"
    \/ resp.status = "OK"
       /\ \E k \in 1..Len(resp.result) : ~resp.result[k].problem.present

\* how a call of fetchUserStatus ends
statusOutcome(resp) ==
    IF statusThrows(resp) THEN "network"
    ELSE IF resp.status = "OK" THEN "ok" ELSE "failed"

\* the alert of lines 821-823 for a call with alertResult
statusAlert(resp) ==
    IF statusThrows(resp) THEN "Network error."
    ELSE IF resp.status = "OK" THEN "Status synced successfully!"
    ELSE "Failed: " \o resp.comment

\* fetchUserStatus up to its fetch, lines 807-810, called by the Sync button
\* of line 1534 (alertResult) or by the blur of the handle box
callFetchUserStatus(alertResult) ==
    /\ Len(statusCall.inFlight) < MaxStatusCalls
    /\ statusCall' = IF userHandle = ""
                     THEN statusCall
                     ELSE [statusCall EXCEPT
                              !.inFlight = Append(@, alertResult)]
    /\ UNCHANGED <<storeVars, readVars, catVars, searchVars, exportVars,
                   folderVars, loaders>>

\* lines 812-823 for the answer resp of the call at place k
fetchUserStatusApply(k, resp) ==
    /\ userStatus' = IF statusOutcome(resp) = "ok"
                     THEN statusLoop(<< >>, resp.result)
                     ELSE userStatus
    /\ lastAlert' = IF statusCall.inFlight[k]
                    THEN statusAlert(resp)
                    ELSE lastAlert
    /\ consoleErrors' = (consoleErrors \/ statusOutcome(resp) = "network")
    /\ statusCall' =
          [statusCall EXCEPT
              !.inFlight = SubSeq(@, 1, k - 1) \o SubSeq(@, k + 1, Len(@)),
              !.outcome = statusOutcome(resp)]

\* fetchUserStatus from the answer to its end, lines 811-823, for the call
\* at place k of those in flight; cf_user_status of line 820 is no part of
\* the model
fetchUserStatusEnd(k) ==
    /\ k \in 1..Len(statusCall.inFlight)
    /\ LET resp == statusCall.answer IN
       fetchUserStatusApply(k, resp)
    /\ UNCHANGED <<store, txStore, txActive, batch, pos, preStore, mergedIds,
                   lastOp, syncPc, syncStatus, userHandle, readVars, storage,
                   allProblemsCache, systemFolders, isLoading, started, now,
                   refresh, searchText, minRating, maxRating, myFolders,
                   searchResults, showStatus, pick, exportVars, folderVars,
                   loaders>>

\* status maps loaded from cf_user_status before the call
PriorStatus == {<< >>, (<<"4", "A">> :> "WRONG") @@ (<<"7", "B">> :> "OK")}

InitStatus ==
    /\ store = EmptyStore
    /\ txStore = EmptyStore
    /\ txActive = FALSE
    /\ batch = << >>
    /\ pos = 0
    /\ preStore = EmptyStore
    /\ mergedIds = {}
    /\ lastOp = "none"
    /\ syncPc = "idle"
    /\ syncStatus = ""
    /\ userHandle \in {"", "tourist"}
    /\ lastAlert = ""
    /\ limit = 0
    /\ recent = << >>
    /\ readPc = "idle"
    /\ storage = snapshotOf(normalize(<<RawWatermelon, RawReflection>>),
                            SnapshotTime)
    /\ allProblemsCache = << >>
    /\ systemFolders = << >>
    /\ isLoading = FALSE
    /\ started = FALSE
    /\ now = SnapshotTime
    /\ refresh = [i \in Slots |-> IdleCall]
    /\ consoleErrors = FALSE
    /\ searchText = << >>
    /\ minRating = << >>
    /\ maxRating = << >>
    /\ myFolders = << >>
    /\ searchResults = [my |-> << >>, global |-> << >>]
    /\ userStatus \in PriorStatus
    /\ showStatus \in BOOLEAN
    /\ pick = NoPick
    /\ dbCount = 0
    /\ countCalls = << >>
    /\ exportFormat = "csv"
    /\ exportOnlyAC = FALSE
    /\ exported = NoExport
    /\ selectedFolderId = ""
    /\ activeProblem = NoActive
    /\ contextMenu = NoActive
    /\ loaders = NoLoaders
    /\ statusCall \in {[IdleStatusCall EXCEPT !.answer = resp] :
                           resp \in StatusResponses}

NextStatus ==
    \/ initEffect
    \/ \E alertResult \in BOOLEAN : callFetchUserStatus(alertResult)
    \/ \E k \in 1..MaxStatusCalls : fetchUserStatusEnd(k)

SpecStatus == InitStatus /\ [][NextStatus]_vars

\* a call of fetchCFProblems is between its fetch and its end
RefreshInFlight == \E i \in Slots : refresh[i].pc = "fetch"

\* the Download link of line 1287 is shown
DownloadOffered == allProblemsCache = << >> /\ ~isLoading

\* C26: while a call of fetchCFProblems is in flight isLoading is true,
\* whatever fetchContests and fetchAIModels do meanwhile, so the Download
\* link is not offered then.
C26_LoadingCoversRefresh ==
    RefreshInFlight => isLoading /\ ~DownloadOffered

\* the flag does cover a refresh as long as no other loader has ended:
\* a call in flight with the flag down is preceded by the end of a loader
C26_FlagDropsOnlyAtAnEnd ==
    [][(isLoading /\ ~isLoading') =>
           \/ \E i \in Slots : refresh[i].pc = "fetch"
                               /\ refresh'[i].pc = "done"
           \/ loaders'.contests < loaders.contests
           \/ loaders'.ai < loaders.ai]_vars

\* the refresh of the start-up effect is in flight, fetchContests has ended
\* and the Download link is offered
C26_DownloadDuringRefreshReached ==
    /\ started /\ RefreshInFlight /\ DownloadOffered
    /\ loaders.contests = 0 /\ loaders.contestsStored

\* the place of the last record of the batch that passes the test of line 45
\* and has the id k
LastKeyedAt(k) ==
    CHOOSE j \in 1..Len(batch) :
        /\ KeyedAt(j) /\ batch[j].id = k
        /\ \A i \in (j + 1)..Len(batch) : ~(KeyedAt(i) /\ batch[i].id = k)

\* C28: when saveSubmissions commits, every id of a valid record of the
\* batch is stored with the fields other than `code` of the last valid
\* record of the batch with that id, and the records with another id are
\* the ones stored before, unchanged.
C28_LastWriterWinsPerId ==
    [][MergeCommits =>
         /\ \A k \in ValidIds(batch) :
                /\ k \in DOMAIN store'
                /\ store'[k].id = k
                /\ store'[k].name = batch[LastKeyedAt(k)].problem.name
                /\ store'[k].verdict = batch[LastKeyedAt(k)].verdict
                /\ store'[k].creationTimeSeconds
                      = batch[LastKeyedAt(k)].creationTimeSeconds
         /\ DOMAIN store' \ ValidIds(batch) = DOMAIN store \ ValidIds(batch)
         /\ \A k \in DOMAIN store \ ValidIds(batch) : store'[k] = store[k]]_vars

\* a batch with one id twice and different verdicts is applied to a store
\* that holds that id with the first verdict and another id besides
C28_Witness ==
    /\ LoopDone
    /\ Len(batch) = 2
    /\ KeyedAt(1) /\ KeyedAt(2)
    /\ batch[1].id = batch[2].id
    /\ batch[1].verdict # batch[2].verdict
    /\ batch[1].id \in DOMAIN preStore
    /\ preStore[batch[1].id].verdict = batch[1].verdict
    /\ txStore[batch[1].id].verdict = batch[2].verdict
    /\ \E k \in DOMAIN preStore : k # batch[1].id /\ txStore[k] = preStore[k]

\* ids of the problems that a status can be asked for
StatusPids ==
    {problemId(p.contestId, p.index) : p \in StatusProblems}
    \cup UNION {DOMAIN s : s \in PriorStatus}

\* the submissions of the result r for the problem pid
SubsFor(r, pid) ==
    {k \in 1..Len(r) :
        problemId(r[k].problem.contestId, r[k].problem.index) = pid}

\* the step in which a call of fetchUserStatus ends with success
StatusSucceeds ==
    /\ Len(statusCall'.inFlight) < Len(statusCall.inFlight)
    /\ statusCall'.outcome = "ok"

\* C29: after the step in which fetchUserStatus succeeds, the status of a
\* problem is "OK" iff a submission of the response for it has the verdict
\* OK, "WRONG" iff the response has submissions for it and none with the
\* verdict OK, and absent otherwise, for every order of the submissions.
C29_StatusOrderIndependent ==
    [][StatusSucceeds =>
          LET r == statusCall'.answer.result
          IN  \A pid \in StatusPids :
                  LET subs == SubsFor(r, pid)
                      hasOK == \E k \in subs : r[k].verdict = "OK"
                  IN  /\ statusOf(userStatus', pid) = "OK" <=> hasOK
                      /\ statusOf(userStatus', pid) = "WRONG"
                            <=> (subs # {} /\ ~hasOK)
                      /\ pid \notin DOMAIN userStatus' <=> subs = {}]_vars

\* a call has succeeded on a response with a rejected submission after an
\* accepted one of the same problem; the problem is "OK", and a problem
\* without submission in the response has lost its status
C29_Witness ==
    /\ statusCall.outcome = "ok"
    /\ Len(statusCall.answer.result) = 3
    /\ statusCall.answer.result[1].problem.index = <<"A">>
    /\ statusCall.answer.result[1].verdict = "OK"
    /\ statusCall.answer.result[2].problem.index = <<"A">>
    /\ statusCall.answer.result[2].verdict = "WRONG_ANSWER"
    /\ statusCall.answer.result[3].problem.index = <<"B">>
    /\ statusCall.answer.result[3].verdict = "WRONG_ANSWER"
    /\ userStatus = (<<"4", "A">> :> "OK") @@ (<<"1", "B">> :> "WRONG")

\* no saveSubmissions or clearDB and no refreshDbCount is in flight
CountQuiescent == ~txActive /\ countCalls = << >>

\* C27: whenever no store operation and no refreshDbCount is in flight,
\* dbCount is the number of records of the store; so a handleExportHistory
\* made then refuses with "No data to export. Please Sync first." if and
\* only if the store is empty.
C27_CountTracksStore ==
    [][/\ CountQuiescent => dbCount = storeCount(store)
       /\ (CountQuiescent /\ exported' # exported) =>
              /\ (exported'.outcome = "refused") <=> (store = EmptyStore)
              /\ exported'.outcome = "refused" =>
                     lastAlert' = "No data to export. Please Sync first."
              /\ exported'.outcome \in {"refused", "exported"}]_vars

\* at rest after a clear, with the next sync still fetching, the count
\* shows 0, the preview is empty and the export has been refused
C27_Witness ==
    /\ CountQuiescent
    /\ lastOp = "clear"
    /\ dbCount = 0
    /\ recent = << >>
    /\ exported.outcome = "refused"
    /\ syncPc = "fetching"

\* at rest after a sync into an empty store the count shows the two records
\* and the export has been made
C27_ExportAfterSyncReached ==
    /\ CountQuiescent
    /\ lastOp = "save"
    /\ dbCount = 2
    /\ exported.outcome = "exported"
    /\ Len(exported.data) = 2

====
